---- MODULE Spec2Model ----
(***************************************************************************)
(* A model of qobuz-dl's naming resolution and download orchestration:     *)
(* qobuz_dl/downloader.py (Download), qobuz_dl/utils.py (clean_filename),  *)
(* qobuz_dl/db.py (the ledger) and qobuz_dl/metadata.py (the tag writers). *)
(*                                                                         *)
(* Text is modelled as a sequence of one-character strings.  A template is *)
(* a sequence whose elements are characters or placeholders: a placeholder *)
(* "{name}" is one element, the string "{name}".                           *)
(***************************************************************************)
EXTENDS Integers, Sequences, FiniteSets, TLC

\* ------------------------------------------------------------------------
\* Characters
\* ------------------------------------------------------------------------

\* \s of the regular expressions, restricted to the characters of the model
WhiteSpace == {" "}

\* the class [,\.\:\;\|/\\_] of clean_filename
Separators == {",", ".", ":", ";", "|", "/", "\\", "_"}

\* \w of the regular expressions: letters, digits and the underscore
WordChars ==
    {"a", "b", "c", "d", "e", "f", "g", "h", "i", "j", "k", "l", "m", "n", "o",
     "p", "q", "r", "s", "t", "u", "v", "w", "x", "y", "z",
     "A", "B", "C", "D", "E", "F", "G", "H", "I", "J", "K", "L", "M", "N", "O",
     "P", "Q", "R", "S", "T", "U", "V", "W", "X", "Y", "Z",
     "0", "1", "2", "3", "4", "5", "6", "7", "8", "9", "_", "e'"}

\* the opening and closing brackets of clean_filename's boundary patterns
\* (the ASCII ones; the CJK and full-width pairs are not characters of the model)
OpenBrackets == {"(", "[", "{", "<"}
CloseBrackets == {")", "]", "}", ">"}

IsWord(c) == c \in WordChars

Digit(n) == CASE n = 0 -> "0" [] n = 1 -> "1" [] n = 2 -> "2" [] n = 3 -> "3"
              [] n = 4 -> "4" [] n = 5 -> "5" [] n = 6 -> "6" [] n = 7 -> "7"
              [] n = 8 -> "8" [] n = 9 -> "9"

\* f"{n:02}" for 0 <= n < 100
Pad2(n) == <<Digit(n \div 10), Digit(n % 10)>>

\* c repeated n times
Rep(c, n) == [i \in 1..n |-> c]

\* s[from..] and s[..to] that tolerate empty ranges
Tail0(s, from) == IF from > Len(s) THEN <<>> ELSE SubSeq(s, from, Len(s))
Head0(s, to) ==
    IF to < 1 THEN <<>> ELSE SubSeq(s, 1, IF to > Len(s) THEN Len(s) ELSE to)

\* ------------------------------------------------------------------------
\* utils.clean_filename
\* ------------------------------------------------------------------------

\* the characters of t that are left: "" marks a position whose character a
\* substitution has removed
Keep(t) == SelectSeq(t, LAMBDA c : c # "")

SetMax(S) == CHOOSE x \in S : \A y \in S : y <= x
SetMin(S) == CHOOSE x \in S : \A y \in S : x <= y

\* the end of the maximal block of characters of set cs that starts at i
\* (i - 1 when s[i] is not in cs)
BlockEnd(s, i, cs) ==
    IF i > Len(s) \/ s[i] \notin cs THEN i - 1
    ELSE SetMax({j \in i..Len(s) : \A m \in i..j : s[m] \in cs})

\* the start of the maximal block of characters of set cs that ends at i
\* (i + 1 when s[i] is not in cs)
BlockStart(s, i, cs) ==
    IF i < 1 \/ s[i] \notin cs THEN i + 1
    ELSE SetMin({j \in 1..i : \A m \in j..i : s[m] \in cs})

\* the indexes of lo..hi whose character is in cs
IdxIn(s, lo, hi, cs) == {k \in lo..hi : s[k] \in cs}

\* unicodedata.normalize('NFC', s): a base letter followed by a combining
\* mark is composed into one character (here: e + U+0301 -> e')
NFC(s) ==
    Keep([k \in 1..Len(s) |->
            IF s[k] = "e" /\ k < Len(s) /\ s[k + 1] = "U+0301" THEN "e'"
            ELSE IF s[k] = "U+0301" /\ k > 1 /\ s[k - 1] = "e" THEN ""
            ELSE s[k]])

\* what re.sub(r'(?:\s*([,\.\:\;\|/\\_])\s*){2,}', r'\1 ', s) leaves at
\* position k: a maximal block of white space and separators that holds two
\* or more separators becomes its last separator followed by one space
MergedAt(s, k) ==
    IF s[k] \notin WhiteSpace \cup Separators THEN s[k]
    ELSE LET b == BlockStart(s, k, WhiteSpace \cup Separators)
             seps == IdxIn(s, b, BlockEnd(s, k, WhiteSpace \cup Separators), Separators)
         IN IF Cardinality(seps) < 2 THEN s[k]
            ELSE IF k = b THEN s[SetMax(seps)]
            ELSE IF k = b + 1 THEN " "
            ELSE ""

MergeSeparators(s) == Keep([k \in 1..Len(s) |-> MergedAt(s, k)])

\* the characters of s that \W matches
NonWord(s) == {c \in {s[k] : k \in 1..Len(s)} : ~IsWord(c)}

\* whether position k lies in a match of open \s*\W*\s* close, nonword being
\* the characters of s that \W matches: the match runs from the first
\* opening bracket of a block of non-word characters to the last closing
\* bracket of the block
InEmptyBrackets(s, k, nonword, open, close) ==
    /\ s[k] \in nonword
    /\ LET b == BlockStart(s, k, nonword)
           e == BlockEnd(s, k, nonword)
           opens == IdxIn(s, b, e, {open})
           closes == IdxIn(s, b, e, {close})
       IN /\ opens # {}
          /\ closes # {}
          /\ SetMin(opens) < SetMax(closes)
          /\ SetMin(opens) <= k
          /\ k <= SetMax(closes)

BracketsDropped(s, nonword, open, close) ==
    Keep([k \in 1..Len(s) |->
            IF InEmptyBrackets(s, k, nonword, open, close) THEN "" ELSE s[k]])

\* re.sub(open \s*\W*\s* close, '', s)
DropEmptyBrackets(s, open, close) == BracketsDropped(s, NonWord(s), open, close)

\* \b at the position between s[p-1] and s[p]
WordBoundary(s, p) ==
    LET before == p > 1 /\ IsWord(s[p - 1])
        after == p <= Len(s) /\ IsWord(s[p])
    IN before # after

\* the end q (exclusive) of a match of \s*[sep]\s* that starts at p and is
\* followed by \b, or 0 when there is none; the trailing \s* is greedy
SepThenBoundaryEnd(s, p) ==
    LET w == BlockEnd(s, p, WhiteSpace) + 1      \* where the separator must be
    IN IF w > Len(s) \/ s[w] \notin Separators THEN 0
       ELSE LET t == BlockEnd(s, w + 1, WhiteSpace)
                ends == {q \in (w + 1)..(t + 1) : WordBoundary(s, q)}
            IN IF ends = {} THEN 0 ELSE SetMax(ends)

\* whether position k lies in a match of (?<=[openers])(\s*[sep]\s*)\b: the
\* match starts right after an opening bracket
AfterOpenMatch(s, k) ==
    /\ s[k] \in WhiteSpace \cup Separators
    /\ LET i == BlockStart(s, k, WhiteSpace \cup Separators)
       IN i > 1 /\ s[i - 1] \in OpenBrackets /\ k < SepThenBoundaryEnd(s, i)

\* re.sub(r'(?<=[openers])(\s*[sep]\s*)\b', '', s)
StripAfterOpen(s) ==
    Keep([k \in 1..Len(s) |-> IF AfterOpenMatch(s, k) THEN "" ELSE s[k]])

\* the end q (exclusive) of a match of \b\s*[sep]\s*(?=[closers]) at p, or 0
BoundaryThenSepEnd(s, p) ==
    LET w == BlockEnd(s, p, WhiteSpace) + 1
    IN IF ~WordBoundary(s, p) \/ w > Len(s) \/ s[w] \notin Separators THEN 0
       ELSE LET t == BlockEnd(s, w + 1, WhiteSpace) + 1
            IN IF t <= Len(s) /\ s[t] \in CloseBrackets THEN t ELSE 0

\* whether position k lies in a match of \b(\s*[sep]\s*)(?=[closers])
BeforeCloseMatch(s, k) ==
    /\ s[k] \in WhiteSpace \cup Separators
    /\ \E p \in BlockStart(s, k, WhiteSpace \cup Separators)..k :
          BoundaryThenSepEnd(s, p) > k

\* re.sub(r'\b(\s*[sep]\s*)(?=[closers])', '', s)
StripBeforeClose(s) ==
    Keep([k \in 1..Len(s) |-> IF BeforeCloseMatch(s, k) THEN "" ELSE s[k]])

\* re.sub(r'\s+', ' ', s)
MergeSpaces(s) ==
    Keep([k \in 1..Len(s) |->
            IF s[k] \notin WhiteSpace THEN s[k]
            ELSE IF k = 1 \/ s[k - 1] \notin WhiteSpace THEN " "
            ELSE ""])

\* str.strip(chars): the characters of cs removed at both ends
Strip(s, cs) ==
    IF BlockEnd(s, 1, cs) >= Len(s) THEN <<>>
    ELSE SubSeq(s, BlockEnd(s, 1, cs) + 1, BlockStart(s, Len(s), cs) - 1)

FullWidth(c) ==
    CASE c = "/" -> "U+FF0F" [] c = "\\" -> "U+FF3C" [] c = ":" -> "U+FF1A"
      [] c = "*" -> "U+FF0A" [] c = "?" -> "U+FF1F" [] c = "\"" -> "U+FF02"
      [] c = "<" -> "U+FF1C" [] c = ">" -> "U+FF1E" [] c = "|" -> "U+FF5C"
      [] OTHER -> c

\* a conversion that leaves the text as it is
NotConverted(s) == s

invalid_chars_to_fullwidth(s) == [k \in 1..Len(s) |-> FullWidth(s[k])]

clean_filename(filename) ==
    invalid_chars_to_fullwidth(
      Strip(Strip(Strip(
        MergeSpaces(
          StripBeforeClose(
            StripAfterOpen(
              DropEmptyBrackets(
                DropEmptyBrackets(
                  DropEmptyBrackets(
                    DropEmptyBrackets(MergeSeparators(NFC(filename)), "(", ")"),
                    "[", "]"),
                  "{", "}"),
                "<", ">")))),
        WhiteSpace), {"."}), WhiteSpace))

\* ------------------------------------------------------------------------
\* pathvalidate (library): sanitize_filename / sanitize_filepath with
\* replacement_text="_", as called by downloader.py
\* ------------------------------------------------------------------------

\* the characters pathvalidate replaces in a file name
InvalidFileChars == {"/", "\\", ":", "*", "?", "\"", "<", ">", "|"}

\* str.rstrip(chars)
RStrip(s, cs) == Head0(s, BlockStart(s, Len(s), cs) - 1)

\* sanitize_filename(s, replacement_text="_"): invalid characters replaced,
\* trailing spaces and periods removed
sanitize_filename(s) ==
    RStrip([k \in 1..Len(s) |-> IF s[k] \in InvalidFileChars THEN "_" ELSE s[k]],
           {" ", "."})

\* sanitize_filepath(s, replacement_text="_"): as sanitize_filename, but the
\* path separators are kept
sanitize_filepath(s) ==
    RStrip([k \in 1..Len(s) |->
               IF s[k] \in InvalidFileChars \ {"/", "\\"} THEN "_" ELSE s[k]],
           {" ", "."})

\* ------------------------------------------------------------------------
\* Templates and str.format
\* ------------------------------------------------------------------------

\* the placeholders the templates of the model use
Placeholders ==
    {"{album_artist}", "{album_title}", "{year}", "{format}", "{bit_depth}",
     "{sampling_rate}", "{track_number}", "{track_title}", "{track_title_base}",
     "{disc_number}", "{upc}", "{isrc}"}

\* the text of a placeholder, character by character
PlaceholderText(p) ==
    CASE p = "{album_artist}" -> <<"{","a","l","b","u","m","_","a","r","t","i","s","t","}">>
      [] p = "{album_title}" -> <<"{","a","l","b","u","m","_","t","i","t","l","e","}">>
      [] p = "{year}" -> <<"{","y","e","a","r","}">>
      [] p = "{format}" -> <<"{","f","o","r","m","a","t","}">>
      [] p = "{bit_depth}" -> <<"{","b","i","t","_","d","e","p","t","h","}">>
      [] p = "{sampling_rate}" -> <<"{","s","a","m","p","l","i","n","g","_","r","a","t","e","}">>
      [] p = "{track_number}" -> <<"{","t","r","a","c","k","_","n","u","m","b","e","r","}">>
      [] p = "{track_title}" -> <<"{","t","r","a","c","k","_","t","i","t","l","e","}">>
      [] p = "{track_title_base}" ->
            <<"{","t","r","a","c","k","_","t","i","t","l","e","_","b","a","s","e","}">>
      [] p = "{disc_number}" -> <<"{","d","i","s","c","_","n","u","m","b","e","r","}">>
      [] p = "{upc}" -> <<"{","u","p","c","}">>
      [] p = "{isrc}" -> <<"{","i","s","r","c","}">>

\* a template written out as plain text
RECURSIVE TemplateText(_)
TemplateText(t) ==
    IF t = <<>> THEN <<>>
    ELSE (IF t[1] \in Placeholders THEN PlaceholderText(t[1]) ELSE <<t[1]>>)
         \o TemplateText(Tail(t))

\* t.format(**attr): [ok |-> TRUE, s |-> text], or ok = FALSE for the KeyError
\* of a placeholder that is no key of attr
RECURSIVE Format(_, _)
Format(t, attr) ==
    IF t = <<>> THEN [ok |-> TRUE, s |-> <<>>]
    ELSE LET rest == Format(Tail(t), attr)
         IN IF t[1] \in Placeholders
            THEN IF t[1] \in DOMAIN attr
                 THEN [ok |-> rest.ok, s |-> attr[t[1]] \o rest.s]
                 ELSE [ok |-> FALSE, s |-> <<>>]
            ELSE [ok |-> rest.ok, s |-> <<t[1]>> \o rest.s]

\* str.split(c): the parts between the occurrences of the character c
RECURSIVE Split(_, _)
Split(t, c) ==
    LET cut == {k \in 1..Len(t) : t[k] = c}
    IN IF cut = {} THEN <<t>>
       ELSE LET k == CHOOSE x \in cut : \A y \in cut : x <= y
            IN <<Head0(t, k - 1)>> \o Split(Tail0(t, k + 1), c)

\* os.path.join(a, b) on POSIX
PathJoin(a, b) ==
    IF b # <<>> /\ b[1] = "/" THEN b
    ELSE IF a = <<>> \/ a[Len(a)] = "/" THEN a \o b
    ELSE a \o <<"/">> \o b

\* os.path.join(*parts) for a non-empty list of parts
RECURSIVE PathJoinAll(_)
PathJoinAll(parts) ==
    IF Len(parts) = 1 THEN parts[1]
    ELSE PathJoin(PathJoinAll(Head0(parts, Len(parts) - 1)), parts[Len(parts)])

\* one part of the folder template, rendered and cleaned; a part whose
\* rendering raises KeyError is used as written (lines 37-45)
CleanedPart(part, attr) ==
    sanitize_filepath(clean_filename(IF Format(part, attr).ok THEN Format(part, attr).s
                                     ELSE TemplateText(part)))

\* the cleaned parts of process_folder_format_with_subdirs: empty parts are
\* skipped
RECURSIVE CleanedParts(_, _)
CleanedParts(parts, attr) ==
    IF parts = <<>> THEN <<>>
    ELSE (IF parts[1] # <<>> THEN <<CleanedPart(parts[1], attr)>> ELSE <<>>)
         \o CleanedParts(Tail(parts), attr)

\* lines 47-58: the cleaned parts joined, under the base path when one is
\* given; the empty path when no part is left
JoinCleanedParts(cleaned_parts, path) ==
    LET final_path == IF cleaned_parts # <<>> THEN PathJoinAll(cleaned_parts) ELSE <<>>
    IN IF path # <<>> /\ final_path # <<>> THEN PathJoin(path, final_path)
       ELSE final_path

\* process_folder_format_with_subdirs(folder_format, attr_dict, path);
\* path = <<>> stands for path=None
process_folder_format_with_subdirs(folder_format, attr_dict, path) ==
    JoinCleanedParts(CleanedParts(Split(folder_format, "/"), attr_dict), path)

\* ------------------------------------------------------------------------
\* Metadata, titles and attribute mappings
\* ------------------------------------------------------------------------

\* str(None)
NoneText == <<"N", "o", "n", "e">>

\* str.lower, character by character
LowerChar(c) ==
    CASE c = "A" -> "a" [] c = "B" -> "b" [] c = "C" -> "c" [] c = "D" -> "d" [] c = "E" ->
      "e" [] c = "F" -> "f" [] c = "G" -> "g" [] c = "H" -> "h" [] c = "I" -> "i" [] c =
      "J" -> "j" [] c = "K" -> "k" [] c = "L" -> "l" [] c = "M" -> "m" [] c = "N" -> "n"
      [] c = "O" -> "o" [] c = "P" -> "p" [] c = "Q" -> "q" [] c = "R" -> "r" [] c = "S"
      -> "s" [] c = "T" -> "t" [] c = "U" -> "u" [] c = "V" -> "v" [] c = "W" -> "w" [] c
      = "X" -> "x" [] c = "Y" -> "y" [] c = "Z" -> "z"
      [] OTHER -> c

Lower(s) == [k \in 1..Len(s) |-> LowerChar(s[k])]

\* sub in s
Contains(s, sub) ==
    \E k \in 0..(Len(s) - Len(sub)) : \A j \in 1..Len(sub) : s[k + j] = sub[j]

\* _get_title(item_dict); an absent or empty version is <<>>
_get_title(item_dict) ==
    IF item_dict.version # <<>>
    THEN IF ~Contains(Lower(item_dict.title), Lower(item_dict.version))
         THEN item_dict.title \o <<" ", "(">> \o item_dict.version \o <<")">>
         ELSE item_dict.title
    ELSE item_dict.title

\* metadata._get_title_with_version(title, version) (lines 42-52); an empty
\* or None version is <<>>
_get_title_with_version(title, version) ==
    IF version # <<>> THEN title \o <<" ", "(">> \o version \o <<")">> ELSE title

\* _get_title_with_version(**d) (lines 245, 247): a key of d that is no
\* parameter of the function raises TypeError (ok = FALSE)
TagTitle(d) ==
    IF DOMAIN d \subseteq {"title", "version"}
    THEN [ok |-> TRUE, s |-> _get_title_with_version(d.title, d.version)]
    ELSE [ok |-> FALSE, s |-> <<>>]

\* ", ".join(names)
RECURSIVE JoinComma(_)
JoinComma(names) ==
    IF names = <<>> THEN <<>>
    ELSE IF Len(names) = 1 THEN names[1]
    ELSE names[1] \o <<",", " ">> \o JoinComma(Tail(names))

\* get_album_artist(qobuz_album): the main artists joined, or the album's artist
get_album_artist(qobuz_album) ==
    LET main_artists == SelectSeq(qobuz_album.artists, LAMBDA a : a.main)
        n == Len(main_artists)
    IN IF qobuz_album.artists = <<>> THEN qobuz_album.artist
       ELSE IF n > 1
            THEN JoinComma([k \in 1..(n - 1) |-> main_artists[k].name])
                 \o <<" ", "&", " ">> \o main_artists[n].name
            ELSE qobuz_album.artist

\* the keys of metadata.ID3_LEGEND (lines 20-37) with the frames they name;
\* a TXXX frame is stored under its description
ID3_LEGEND ==
    [k \in {"albumartist", "album", "artist", "title", "date", "mediatype", "genre",
            "composer", "itunesadvisory", "copyright", "label", "barcode", "isrc",
            "comment", "year", "performer"} |->
        CASE k = "albumartist" -> "TPE2" [] k = "album" -> "TALB" [] k = "artist" -> "TPE1"
          [] k = "title" -> "TIT2" [] k = "date" -> "TDAT" [] k = "mediatype" -> "TMED"
          [] k = "genre" -> "TCON" [] k = "composer" -> "TCOM"
          [] k = "itunesadvisory" -> "TXXX" [] k = "copyright" -> "TCOP"
          [] k = "label" -> "TPUB" [] k = "barcode" -> "TXXX" [] k = "isrc" -> "TSRC"
          [] k = "comment" -> "COMM" [] k = "year" -> "TYER" [] k = "performer" -> "TOPE"]

\* one assignment tags[k] = v of _get_tags_to_add, made when the flag is off
TagEntry(disabled, flag, k, v) == IF flag \in disabled THEN {} ELSE {[k |-> k, v |-> v]}

\* _get_tags_to_add(qobuz_album, qobuz_item, settings) (lines 232-280) for
\* dictionaries that are not empty; disabled is the set of the no_..._tag
\* settings that are on.  ok = FALSE: a TypeError of lines 245 or 247.  The
\* values are kept as far as the writers read them: empty or not
_get_tags_to_add(qobuz_album, qobuz_item, disabled) ==
    [ok |-> /\ "no_album_title_tag" \in disabled \/ TagTitle(qobuz_album).ok
            /\ "no_track_title_tag" \in disabled \/ TagTitle(qobuz_item).ok,
     tags |->
        TagEntry(disabled, "no_album_title_tag", "ALBUM", TagTitle(qobuz_album).s)
        \cup TagEntry(disabled, "no_track_title_tag", "TITLE", TagTitle(qobuz_item).s)
        \cup TagEntry(disabled, "no_album_artist_tag", "ALBUMARTIST",
                      get_album_artist(qobuz_album))
        \cup TagEntry(disabled, "no_track_artist_tag", "ARTIST",
                      IF qobuz_item.performer # <<>> THEN qobuz_item.performer
                      ELSE qobuz_album.artist)
        \cup TagEntry(disabled, "no_composer_tag", "COMPOSER", qobuz_item.composer)
        \cup TagEntry(disabled, "no_release_date_tag", "DATE",
                      qobuz_album.release_date_original)
        \cup TagEntry(disabled, "no_release_date_tag", "YEAR",
                      Head0(qobuz_album.release_date_original, 4))
        \cup TagEntry(disabled, "no_genre_tag", "GENRE", qobuz_album.genres_list)
        \cup TagEntry(disabled, "no_label_tag", "COPYRIGHT", qobuz_album.copyright)
        \cup TagEntry(disabled, "no_label_tag", "LABEL", qobuz_album.label)
        \cup TagEntry(disabled, "no_isrc_tag", "ISRC", qobuz_item.isrc)
        \cup TagEntry(disabled, "no_upc_tag", "BARCODE", qobuz_album.upc)
        \cup TagEntry(disabled, "no_media_type_tag", "MEDIATYPE", qobuz_album.product_type)
        \cup TagEntry(disabled, "no_explicit_tag", "ITUNESADVISORY",
                      IF qobuz_album.parental_warning THEN <<"1">> ELSE <<"0">>)]

\* the entries of tags the writers keep (if v:)
NotEmpty(tags) == {e \in tags : e.v # <<>>}

\* tag_flac (lines 156-177): the names of the tags of the saved file, or
\* ok = FALSE when the function raises before audio.save()
tag_flac(qobuz_album, qobuz_item, disabled) ==
    LET t == _get_tags_to_add(qobuz_album, qobuz_item, disabled)
    IN IF ~t.ok THEN [ok |-> FALSE, written |-> {}]
       ELSE [ok |-> TRUE,
             written |->
                {e.k : e \in NotEmpty(t.tags)}
                \cup (IF "no_track_number_tag" \in disabled THEN {} ELSE {"TRACKNUMBER"})
                \cup (IF "no_track_total_tag" \in disabled THEN {} ELSE {"TRACKTOTAL"})
                \cup (IF "no_disc_number_tag" \in disabled THEN {} ELSE {"DISCNUMBER"})
                \cup (IF "no_disc_total_tag" \in disabled THEN {} ELSE {"DISCTOTAL"})]

\* the frame of tag k (lines 213-218)
Id3Frame(k) == IF ID3_LEGEND[k] = "TXXX" THEN "TXXX:" \o k ELSE ID3_LEGEND[k]

\* tag_mp3 (lines 209-230): the frames of the saved file; ID3_LEGEND[k]
\* raises KeyError for a k that is no key of the legend
tag_mp3(qobuz_album, qobuz_item, disabled) ==
    LET t == _get_tags_to_add(qobuz_album, qobuz_item, disabled)
    IN IF ~t.ok THEN [ok |-> FALSE, written |-> {}]
       ELSE IF \E e \in NotEmpty(t.tags) : e.k \notin DOMAIN ID3_LEGEND
       THEN [ok |-> FALSE, written |-> {}]
       ELSE [ok |-> TRUE,
             written |-> {Id3Frame(e.k) : e \in NotEmpty(t.tags)} \cup {"TRCK", "TPOS"}]

\* x.split("-")[0]
Year(release_date_original) == Split(release_date_original, "-")[1]

\* Download._get_album_attr, on the keys the templates of the model use
_get_album_attr(meta, album_title, file_format, bit_depth, sampling_rate) ==
    [p \in {"{album_title}", "{album_artist}", "{upc}", "{year}", "{format}",
            "{bit_depth}", "{sampling_rate}"} |->
        CASE p = "{album_title}" -> album_title
          [] p = "{album_artist}" -> get_album_artist(meta)
          [] p = "{upc}" -> meta.upc
          [] p = "{year}" -> Year(meta.release_date_original)
          [] p = "{format}" -> file_format
          [] p = "{bit_depth}" -> bit_depth
          [] p = "{sampling_rate}" -> sampling_rate]

\* Download._get_track_attr, on the keys the templates of the model use
_get_track_attr(meta, track_title, bit_depth, sampling_rate, file_format) ==
    [p \in {"{track_title}", "{track_title_base}", "{album_title}", "{album_artist}",
            "{upc}", "{year}", "{format}", "{bit_depth}", "{sampling_rate}"} |->
        CASE p = "{track_title}" -> track_title
          [] p = "{track_title_base}" -> meta.title
          [] p = "{album_title}" -> _get_title(meta.album)
          [] p = "{album_artist}" ->
                IF get_album_artist(meta.album) # <<>> THEN get_album_artist(meta.album)
                ELSE meta.performer
          [] p = "{upc}" -> meta.upc
          [] p = "{year}" -> Year(meta.release_date_original)
          [] p = "{format}" -> file_format
          [] p = "{bit_depth}" -> bit_depth
          [] p = "{sampling_rate}" -> sampling_rate]

\* Download._get_filename_attr, on the keys the templates of the model use
_get_filename_attr(track_artist, track_metadata, album_metadata) ==
    [p \in {"{album_title}", "{album_artist}", "{track_number}", "{isrc}",
            "{bit_depth}", "{sampling_rate}", "{track_title}", "{track_title_base}",
            "{year}", "{disc_number}"} |->
        CASE p = "{album_title}" -> _get_title(album_metadata)
          [] p = "{album_artist}" ->
                IF get_album_artist(album_metadata) # <<>>
                THEN get_album_artist(album_metadata) ELSE track_artist
          [] p = "{track_number}" -> Pad2(track_metadata.track_number)
          [] p = "{isrc}" -> track_metadata.isrc
          [] p = "{bit_depth}" -> track_metadata.maximum_bit_depth
          [] p = "{sampling_rate}" -> track_metadata.maximum_sampling_rate
          [] p = "{track_title}" -> _get_title(track_metadata)
          [] p = "{track_title_base}" -> track_metadata.title
          [] p = "{year}" -> Year(track_metadata.release_date_original)
          [] p = "{disc_number}" -> Pad2(track_metadata.media_number)]

\* ------------------------------------------------------------------------
\* constants.py and the module constants of downloader.py
\* ------------------------------------------------------------------------

DEFAULT_FOLDER ==
    <<"{album_artist}", " ", "-", " ", "{album_title}", " ", "(", "{year}", ")",
      " ", "[", "{format}", " ", "{bit_depth}", "]">>

DEFAULT_TRACK == <<"{track_number}", " ", "-", " ", "{track_title_base}">>

DEFAULT_MULTIPLE_DISC_TRACK ==
    <<"{disc_number}", ".", "{track_number}", " ", "-", " ", "{track_title_base}">>

OK_MAX_CHARACTER_LENGTH == 180

\* DEFAULT_FORMATS[file_format][i], i = 1 the folder and i = 2 the track template
DEFAULT_FORMATS(file_format, i) ==
    IF file_format = "MP3"
    THEN IF i = 1
         THEN <<"{album_artist}", " ", "-", " ", "{album_title}", " ", "(", "{year}",
                ")", " ", "[", "M", "P", "3", "]">>
         ELSE <<"{track_number}", " ", "-", " ", "{track_title}">>
    ELSE IF i = 1
         THEN <<"{album_artist}", " ", "-", " ", "{album_title}">>
         ELSE <<"{track_number}", " ", "-", " ", "{track_title}">>

EMB_COVER_NAME ==
    <<"e", "m", "b", "e", "d", "_", "c", "o", "v", "e", "r", ".", "j", "p", "g">>

\* the text of a container format name
FormatText(file_format) ==
    CASE file_format = "MP3" -> <<"M", "P", "3">>
      [] file_format = "FLAC" -> <<"F", "L", "A", "C">>
      [] file_format = "Unknown" -> <<"U", "n", "k", "n", "o", "w", "n">>

\* ------------------------------------------------------------------------
\* _clean_format_str and Download._determine_formats
\* ------------------------------------------------------------------------

EndsWith(s, suffix) ==
    Len(s) >= Len(suffix) /\ SubSeq(s, Len(s) - Len(suffix) + 1, Len(s)) = suffix

\* the body of _clean_format_str's loop for template fs at position i
CleanOneFormat(fs, i, file_format) ==
    LET cut == IF EndsWith(fs, <<".", "m", "p", "3">>) THEN Head0(fs, Len(fs) - 4)
               ELSE IF EndsWith(fs, <<".", "f", "l", "a", "c">>) THEN Head0(fs, Len(fs) - 5)
               ELSE fs
        stripped == Strip(cut, WhiteSpace)
    IN IF file_format \in {"MP3", "Unknown"}
          /\ \E k \in 1..Len(stripped) : stripped[k] \in {"{bit_depth}", "{sampling_rate}"}
       THEN DEFAULT_FORMATS(file_format, i)
       ELSE stripped

\* _clean_format_str(folder, track, file_format)
_clean_format_str(folder, track, file_format) ==
    <<CleanOneFormat(folder, 1, file_format), CleanOneFormat(track, 2, file_format)>>

\* candidates with the second and the third in each other's place
CombinationsOutOfOrder(self, settings) ==
    << <<self._original_folder_format, self._original_track_format,
         self._original_multiple_disc_track_format>>,
       <<settings.fallback_folder_format, DEFAULT_TRACK, DEFAULT_MULTIPLE_DISC_TRACK>>,
       <<settings.fallback_folder_format, self._original_track_format,
         self._original_multiple_disc_track_format>>,
       <<DEFAULT_FOLDER, DEFAULT_TRACK, DEFAULT_MULTIPLE_DISC_TRACK>> >>

\* format_combinations of _determine_formats: self holds the Download object's
\* _original_* fields, settings the settings object's fields
format_combinations(self, settings) ==
    << <<self._original_folder_format, self._original_track_format,
         self._original_multiple_disc_track_format>>,
       <<settings.fallback_folder_format, self._original_track_format,
         self._original_multiple_disc_track_format>>,
       <<settings.fallback_folder_format, DEFAULT_TRACK, DEFAULT_MULTIPLE_DISC_TRACK>>,
       <<DEFAULT_FOLDER, DEFAULT_TRACK, DEFAULT_MULTIPLE_DISC_TRACK>> >>

\* the extension _determine_formats evaluates paths with
ResolverExtension(file_format) ==
    IF file_format = "FLAC" THEN <<".", "f", "l", "a", "c">> ELSE <<".", "m", "p", "3">>

\* a length test that lets one more character through
OneOverAllowed(final_path) == Len(final_path) > OK_MAX_CHARACTER_LENGTH + 1

\* a length test that turns the limit itself down
LimitNotAllowed(final_path) == Len(final_path) >= OK_MAX_CHARACTER_LENGTH

\* the test of line 524
PathTooLong(final_path) == Len(final_path) > OK_MAX_CHARACTER_LENGTH

\* f"{prefix} {media_number:02}"
DiscDir(prefix, media_number) == prefix \o <<" ">> \o Pad2(media_number)

\* the track's name: the rendered track template, cleaned and sanitized
\* (lines 505-520 and 326-330)
TrackPath(rendered) == sanitize_filename(clean_filename(rendered))

\* lines 522-524 for a rendered track template r = [ok, s]: the path whose
\* length is tested, or ok = FALSE when the template has raised
ResolverPath(r, curr_root_dir, file_format) ==
    IF r.ok
    THEN [ok |-> TRUE,
          s |-> PathJoin(curr_root_dir, TrackPath(r.s) \o ResolverExtension(file_format))]
    ELSE [ok |-> FALSE, s |-> <<>>]

\* final_path of _determine_formats for one track under one candidate
\* (lines 499-522): [ok |-> TRUE, s |-> path], or ok = FALSE when the track
\* template raises
EvaluatedPath(root_dir, track_fmt, multi_disc_fmt, track_metadata, album_meta, settings, file_format) ==
    ResolverPath(
        Format(IF album_meta.media_count > 1 /\ settings.multiple_disc_one_dir
               THEN multi_disc_fmt ELSE track_fmt,
               _get_filename_attr(track_metadata.performer, track_metadata, album_meta)),
        IF album_meta.media_count > 1 /\ ~settings.multiple_disc_one_dir
        THEN PathJoin(root_dir, DiscDir(settings.multiple_disc_prefix,
                                        track_metadata.media_number))
        ELSE root_dir,
        file_format)

\* whether an evaluated path passes: the template has rendered and the path
\* is within the limit (lines 524-531)
PathFits(p) == p.ok /\ ~PathTooLong(p.s)

\* the loop over tracks_meta, from track k on: FALSE at the first track whose
\* template raises or whose path is too long
RECURSIVE TracksFit(_, _, _, _, _, _, _, _)
TracksFit(k, root_dir, track_fmt, multi_disc_fmt, tracks_meta, album_meta, settings, file_format) ==
    IF k > Len(tracks_meta) THEN TRUE
    ELSE IF ~PathFits(EvaluatedPath(root_dir, track_fmt, multi_disc_fmt, tracks_meta[k],
                                    album_meta, settings, file_format))
    THEN FALSE
    ELSE TracksFit(k + 1, root_dir, track_fmt, multi_disc_fmt, tracks_meta,
                   album_meta, settings, file_format)

\* valid_combination for the cleaned candidate; attr is album_attr in release
\* mode and track_attr in track mode
ValidCombination(folder_fmt, track_fmt, multi_disc_fmt, attr, tracks_meta, album_meta, settings, file_format) ==
    TracksFit(1, process_folder_format_with_subdirs(folder_fmt, attr, <<>>),
              track_fmt, multi_disc_fmt, tracks_meta, album_meta, settings, file_format)

\* a fall-through that takes the formats kept for an invalid format string
ErrorFormatsScheme ==
    [folder_format |-> DEFAULT_FORMATS("Unknown", 1),
     track_format |-> DEFAULT_FORMATS("Unknown", 2),
     multiple_disc_track_format |-> DEFAULT_MULTIPLE_DISC_TRACK, chosen |-> 0]

\* the assignments of lines 541-546, made when no candidate is valid
DefaultScheme ==
    [folder_format |-> DEFAULT_FOLDER, track_format |-> DEFAULT_TRACK,
     multiple_disc_track_format |-> DEFAULT_MULTIPLE_DISC_TRACK, chosen |-> 0]

\* the loop over format_combinations from candidate i on, and the fall-through
\* of lines 541-546; chosen is the position of the adopted candidate, 0 for
\* the unconditional default
RECURSIVE TryCombinations(_, _, _, _, _, _, _)
TryCombinations(i, combos, attr, tracks_meta, album_meta, settings, file_format) ==
    IF i > Len(combos)
    THEN DefaultScheme
    ELSE LET cleaned == _clean_format_str(combos[i][1], combos[i][2], file_format)
         IN IF ValidCombination(cleaned[1], cleaned[2], combos[i][3], attr, tracks_meta,
                                album_meta, settings, file_format)
            THEN [folder_format |-> cleaned[1], track_format |-> cleaned[2],
                  multiple_disc_track_format |-> combos[i][3], chosen |-> i]
            ELSE TryCombinations(i + 1, combos, attr, tracks_meta, album_meta, settings,
                                 file_format)

\* Download._determine_formats: the values it assigns to self.folder_format,
\* self.track_format and settings.multiple_disc_track_format
_determine_formats(self, album_meta, attr, tracks_meta, file_format, settings) ==
    TryCombinations(1, format_combinations(self, settings), attr, tracks_meta,
                    album_meta, settings, file_format)

\* ------------------------------------------------------------------------
\* Download._download_and_tag: the paths of one track job
\* ------------------------------------------------------------------------

\* a job that makes no directory for the disc
NoDiscDirectory(root_dir, multiple, settings) == root_dir

\* root_dir after lines 308-310; multiple = 0 stands for None / False
JobRootDir(root_dir, multiple, settings) ==
    IF multiple # 0 /\ ~settings.multiple_disc_one_dir
    THEN PathJoin(root_dir, DiscDir(settings.multiple_disc_prefix, multiple))
    ELSE root_dir

\* a temp file named without the counter: one name for every track of a directory
SharedTmpFile(root_dir, tmp_count, multiple, settings) ==
    PathJoin(JobRootDir(root_dir, multiple, settings),
             <<".">> \o Pad2(0) \o <<".", "t", "m", "p">>)

\* filename of line 312: the temp file the track is downloaded into
TmpFile(root_dir, tmp_count, multiple, settings) ==
    PathJoin(JobRootDir(root_dir, multiple, settings),
             <<".">> \o Pad2(tmp_count) \o <<".", "t", "m", "p">>)

\* extension of line 300
JobExtension(is_mp3) ==
    IF is_mp3 THEN <<".", "m", "p", "3">> ELSE <<".", "f", "l", "a", "c">>

\* final_file of line 331 for a rendered track template r = [ok, s]
JobPath(r, root_dir, extension) ==
    [ok |-> r.ok, s |-> Head0(PathJoin(root_dir, TrackPath(r.s)), 250) \o extension]

\* final_file of lines 318-331: [ok |-> TRUE, s |-> path], or ok = FALSE when
\* the track template raises KeyError
FinalFile(root_dir, track_format, multiple_disc_track_format, track_metadata, album, is_mp3, multiple, settings) ==
    JobPath(Format(IF multiple # 0 /\ settings.multiple_disc_one_dir
                   THEN multiple_disc_track_format ELSE track_format,
                   _get_filename_attr(track_metadata.performer, track_metadata, album)),
            JobRootDir(root_dir, multiple, settings),
            JobExtension(is_mp3))

\* ------------------------------------------------------------------------
\* db.handle_download_id
\* ------------------------------------------------------------------------

\* handle_download_id(db_path, ..., add_id=True): the table after the call.
\* db_path = "" stands for no database; a row whose (id, quality) is already
\* stored violates the primary key and the table is left as it is
\* the INSERT without the primary key: a second row is stored
InsertedAgain(table, db_path, row) ==
    IF db_path = "" THEN table ELSE table \cup {row}

\* the INSERT as INSERT OR REPLACE: the stored row gives way to the new one
InsertedOrReplaced(table, db_path, row) ==
    IF db_path = "" THEN table
    ELSE {r \in table : ~(r.id = row.id /\ r.quality = row.quality)} \cup {row}

\* PRIMARY KEY ("id", "quality") (line 25): the INSERT of the row raises
\* sqlite3.IntegrityError
IntegrityError(table, row) == \E r \in table : r.id = row.id /\ r.quality = row.quality

handle_download_id_add(table, db_path, row) ==
    IF db_path = "" THEN table
    ELSE IF IntegrityError(table, row) THEN table
    ELSE table \cup {row}

\* handle_download_id(db_path, item_id, add_id=False, quality=...): whether a
\* row is found (None without a database)
handle_download_id_has(table, db_path, item_id, quality) ==
    db_path # "" /\ \E r \in table : r.id = item_id /\ r.quality = quality

\* ------------------------------------------------------------------------
\* The download of one item: state
\* ------------------------------------------------------------------------

VARIABLES
    mode,         \* "release" or "track": the argument of download_id_by_type
    self,         \* the fields of the Download object
    settings,     \* the fields of the QobuzDLSettings object
    catalog,      \* what the catalog client returns for the item: the release
    pc,           \* where the initiating thread is
    format_info,  \* (file_format, quality_met, bit_depth, sampling_rate)
    parse,        \* download_track's parse: the stream info of the track
    local_folder_format, \* download_track's local folder_format
    dirn,         \* the directory of the item
    count,        \* download_release's count: tracks looked at so far
    jobs,         \* per track: its _download_and_tag job: where it is (st),
                  \* whether its stream info has a "url", whether final_file
                  \* was there when the job looked (existed), and what
                  \* tqdm_download has received ("none", "all", "partial")
    files,        \* the files on disk
    dirs,         \* the directories on disk
    ledger,       \* the rows of the downloads table
    steps,        \* the steps the initiating thread has performed, in order
    chosen,       \* the candidate _determine_formats has adopted (history)
    log,          \* the lines logged about single tracks (<<k, reason>>) and
                  \* the resolver's warning (<<0, reason>>)
    config,       \* the templates the user has configured (history)
    item,         \* the number of items the caller has started
    arg,          \* the argument of a function called on its own
    result        \* what that function has returned

vars == <<mode, self, settings, catalog, pc, format_info, parse, local_folder_format,
          dirn, count, jobs, files, dirs, ledger, steps, chosen, log, config, item,
          arg, result>>

\* what the download of one item leaves alone
others == <<config, item, arg, result>>

\* bounds of the model
MaxTracks == 2
MaxWorkers == 2
MaxBytes == 1

ITEM_ID == "item"
VariousArtists ==
    <<"V", "a", "r", "i", "o", "u", "s", " ", "A", "r", "t", "i", "s", "t", "s">>

\* one track of a release as the catalog describes it: tracks are numbered
\* per disc, the second disc starts with the second track
TrackItem(k, media_count) ==
    [id |-> k, title |-> <<"t">>, version |-> <<>>, performer |-> <<"p">>,
     isrc |-> <<"i">>, maximum_bit_depth |-> <<"2", "4">>,
     maximum_sampling_rate |-> <<"9", "6">>,
     release_date_original |-> <<"2", "0", "2", "0", "-", "0", "1">>,
     track_number |-> IF media_count > 1 /\ k > 1 THEN k - 1 ELSE k,
     media_number |-> IF media_count > 1 /\ k > 1 THEN 2 ELSE 1]

Release(streamable, release_type, artist, media_count, n) ==
    [streamable |-> streamable, release_type |-> release_type, artist |-> artist,
     artists |-> <<>>, title |-> <<"r">>, version |-> <<>>, upc |-> <<"7">>,
     release_date_original |-> <<"2", "0", "2", "0", "-", "0", "1">>,
     media_count |-> media_count, tracks |-> [k \in 1..n |-> TrackItem(k, media_count)]]

\* the releases of the model
Releases ==
    {Release(FALSE, "album", <<"A">>, 1, 1)}
    \cup {Release(TRUE, "album", <<"A">>, mc, n) : mc \in {1, 2}, n \in 1..MaxTracks}
    \cup {Release(TRUE, "single", <<"A">>, 1, n) : n \in 1..MaxTracks}
    \cup {Release(TRUE, "album", VariousArtists, 1, n) : n \in 1..MaxTracks}

\* get_track_meta: the track with its album
TrackMeta(release) ==
    LET t == release.tracks[1]
    IN [id |-> t.id, title |-> t.title, version |-> t.version, performer |-> t.performer,
        isrc |-> t.isrc, maximum_bit_depth |-> t.maximum_bit_depth,
        maximum_sampling_rate |-> t.maximum_sampling_rate,
        release_date_original |-> t.release_date_original,
        track_number |-> t.track_number, media_number |-> t.media_number,
        upc |-> <<>>, album |-> release]

\* line 60
QL_DOWNGRADE == "FormatRestrictedByFormatAvailability"

\* every restriction of the list counts, whatever its code
AnyRestriction(is_list, restrictions) == is_list /\ Len(restrictions) > 0

\* lines 443-449: the value under "restrictions" is a list and one of its
\* entries has the code QL_DOWNGRADE; restrictions holds the code of each entry
\* ("none": the entry has no "code")
Downgraded(is_list, restrictions) ==
    is_list /\ \E k \in 1..Len(restrictions) : restrictions[k] = QL_DOWNGRADE

\* what get_track_url may return: "sample" present or not, the values of
\* "sampling_rate" and "bit_depth" ("absent": no such key; "falsy": None or 0),
\* "url" present or not, a QL_DOWNGRADE restriction or none
StreamInfo(sample, sampling_rate, bit_depth, url, restricted) ==
    [sample |-> sample, sampling_rate |-> sampling_rate, bit_depth |-> bit_depth,
     url |-> url, restricted |-> restricted]

StreamInfos ==
    {StreamInfo(FALSE, "44.1", "24", TRUE, FALSE),
     StreamInfo(FALSE, "44.1", "24", TRUE, TRUE),
     StreamInfo(TRUE, "44.1", "24", TRUE, FALSE),
     StreamInfo(FALSE, "falsy", "24", FALSE, FALSE),
     StreamInfo(FALSE, "44.1", "24", FALSE, FALSE),
     StreamInfo(FALSE, "44.1", "absent", TRUE, FALSE),
     StreamInfo(FALSE, "absent", "absent", FALSE, FALSE)}

\* str(value) of a stream info value
InfoText(v) ==
    CASE v = "24" -> <<"2", "4">>
      [] v = "44.1" -> <<"4", "4", ".", "1">>
      [] OTHER -> NoneText

NoFormat == [file_format |-> "", quality_met |-> TRUE, bit_depth |-> NoneText,
             sampling_rate |-> NoneText]

\* Download._get_format once the stream info is known; http_error: the call
\* of get_track_url raised HTTPError
_get_format(quality, info, http_error) ==
    IF quality = 5
    THEN [file_format |-> "MP3", quality_met |-> TRUE, bit_depth |-> NoneText,
          sampling_rate |-> NoneText]
    ELSE IF http_error
    THEN [file_format |-> "Unknown", quality_met |-> TRUE, bit_depth |-> NoneText,
          sampling_rate |-> NoneText]
    ELSE IF info.bit_depth = "absent" \/ info.sampling_rate = "absent"
    THEN [file_format |-> "Unknown", quality_met |-> ~info.restricted,
          bit_depth |-> NoneText, sampling_rate |-> NoneText]
    ELSE [file_format |-> "FLAC", quality_met |-> ~info.restricted,
          bit_depth |-> InfoText(info.bit_depth),
          sampling_rate |-> InfoText(info.sampling_rate)]

\* the test of lines 192 and 226: "ok" to go on, "demo" to skip, "raise" for
\* the KeyError of a missing "sampling_rate"
SampleCheck(info) ==
    IF info.sample THEN "demo"
    ELSE IF info.sampling_rate = "absent" THEN "raise"
    ELSE IF info.sampling_rate = "falsy" THEN "demo"
    ELSE "ok"

\* the test of lines 134-137
FilteredOut(albums_only, album_meta) ==
    albums_only /\ (album_meta.release_type # "album" \/ album_meta.artist = VariousArtists)

\* a gate that lets every quality through
GateAlwaysOpen(downgrade_quality, quality_met) == FALSE

\* the test of lines 149 and 240
QualityGateCloses(downgrade_quality, quality_met) == ~downgrade_quality /\ ~quality_met

\* tqdm_download raises ConnectionError
TransferRaises(total, download_size) == total # download_size

\* ------------------------------------------------------------------------
\* What a run computes from its inputs
\* ------------------------------------------------------------------------

BasePath == <<"d">>
CoverName == <<"c", "o", "v", "e", "r", ".", "j", "p", "g">>

\* album_attr of download_release (lines 141-161)
AlbumAttrOf(album_meta, fi) ==
    _get_album_attr(album_meta, _get_title(album_meta), FormatText(fi.file_format),
                    fi.bit_depth, fi.sampling_rate)

\* track_attr of download_track (lines 246-248)
TrackAttrOf(track_meta, fi) ==
    _get_track_attr(track_meta, _get_title(track_meta), fi.bit_depth, fi.sampling_rate,
                    FormatText(fi.file_format))

\* the call of _determine_formats in download_release (lines 163-164)
ReleaseFormats(slf, stg, album_meta, fi) ==
    _determine_formats(slf, album_meta, AlbumAttrOf(album_meta, fi),
                       album_meta.tracks, fi.file_format, stg)

\* the call of _determine_formats in download_track (lines 250-251)
TrackFormats(slf, stg, track_meta, fi) ==
    _determine_formats(slf, track_meta.album, TrackAttrOf(track_meta, fi),
                       <<track_meta>>, fi.file_format, stg)

\* dirn of download_release (line 167): from the adopted self.folder_format
ReleaseDirn(slf, album_meta, fi) ==
    process_folder_format_with_subdirs(slf.folder_format, AlbumAttrOf(album_meta, fi),
                                       slf.path)

\* str(bit_depth), which download_track passes to _clean_format_str as the
\* file format (lines 236-238)
StrOf(text) == IF text = NoneText THEN "None" ELSE "24"

\* folder_format of download_track (lines 236-238): computed before
\* _determine_formats runs
TrackLocalFolderFormat(slf, fi) ==
    _clean_format_str(slf.folder_format, slf.track_format, StrOf(fi.bit_depth))[1]

\* dirn of download_track (line 254): from the local folder_format
TrackDirn(local_format, slf, track_meta, fi) ==
    process_folder_format_with_subdirs(local_format, TrackAttrOf(track_meta, fi),
                                       slf.path)

\* multiple of a release's track job (line 204); 0 stands for None
MultipleOf(album_meta, k) ==
    IF album_meta.media_count > 1 THEN album_meta.tracks[k].media_number ELSE 0

\* is_mp3 of lines 193 and 267
IsMp3(quality) == quality = 5

\* final_file of track k's job, for the item directory d
JobFinalFile(md, slf, stg, cat, d, k) ==
    FinalFile(d, slf.track_format, stg.multiple_disc_track_format,
              IF md = "release" THEN cat.tracks[k] ELSE TrackMeta(cat),
              cat, IsMp3(slf.quality),
              IF md = "release" THEN MultipleOf(cat, k) ELSE 0, stg)

\* filename (the temp file) of track k's job: tmp_count is the track's
\* position in the release, and 1 in track mode
JobTmpFile(md, stg, cat, d, k) ==
    IF md = "release" THEN TmpFile(d, k - 1, MultipleOf(cat, k), stg)
    ELSE TmpFile(d, 1, 0, stg)

\* the stream info of a track that meets no restriction
PlainInfo == StreamInfo(FALSE, "44.1", "24", TRUE, FALSE)

\* the final file of track k under the adopted templates
AdoptedFinalFile(md, slf, stg, cat, fi, adopted, k) ==
    JobFinalFile(md, [slf EXCEPT !.track_format = adopted.track_format],
                 [stg EXCEPT !.multiple_disc_track_format =
                                 adopted.multiple_disc_track_format],
                 cat,
                 IF md = "release"
                 THEN ReleaseDirn([slf EXCEPT !.folder_format = adopted.folder_format],
                                  cat, fi)
                 ELSE TrackDirn(TrackLocalFolderFormat(slf, fi), slf, TrackMeta(cat), fi),
                 k).s

\* the final file of track k when the run meets no restriction: the place
\* where an earlier run of the same configuration has left the track
EarlierFinalFile(md, slf, stg, cat, k) ==
    AdoptedFinalFile(md, slf, stg, cat, _get_format(slf.quality, PlainInfo, FALSE),
                     IF md = "release"
                     THEN ReleaseFormats(slf, stg, cat,
                                         _get_format(slf.quality, PlainInfo, FALSE))
                     ELSE TrackFormats(slf, stg, TrackMeta(cat),
                                       _get_format(slf.quality, PlainInfo, FALSE)),
                     k)

\* ------------------------------------------------------------------------
\* The download of one item: initial states
\* ------------------------------------------------------------------------

Tracks == 1..Len(catalog.tracks)

\* a track no job has been submitted for
NoJob == [st |-> "none", url |-> FALSE, existed |-> FALSE, bytes |-> "none"]

\* the states of a track job that has ended
JobEnded == {"no_url", "name_failed", "exists", "transfer_failed", "tag_failed", "done"}
\* the states of a track job that occupies a worker of the pool
JobRunning == {"started", "transfer", "tag"}

Terminated(k) == jobs[k].st \in JobEnded
Dispatched == {k \in Tracks : jobs[k].st \notin {"none", "demo"}}

\* The Download object right after construction with the default templates,
\* and the settings object.  Releases of several tracks are downloaded with
\* albums_only and no_cover off; the one-directory layout is set for
\* releases of several discs only.
Init ==
    /\ mode \in {"release", "track"}
    /\ catalog \in Releases
    /\ mode = "track" =>
          /\ catalog.streamable /\ catalog.release_type = "album"
          /\ catalog.artist = <<"A">> /\ Len(catalog.tracks) = 1
    /\ \E quality \in {5, 27}, albums_only \in BOOLEAN, downgrade_quality \in BOOLEAN,
          download_db \in {"", "db"} :
          /\ Len(catalog.tracks) > 1 => ~albums_only
          /\ self = [item_id |-> ITEM_ID, path |-> BasePath, quality |-> quality,
                     embed_art |-> FALSE,
                     albums_only |-> albums_only,
                     downgrade_quality |-> downgrade_quality,
                     download_db |-> download_db,
                     folder_format |-> DEFAULT_FOLDER, track_format |-> DEFAULT_TRACK,
                     _original_folder_format |-> DEFAULT_FOLDER,
                     _original_track_format |-> DEFAULT_TRACK,
                     _original_multiple_disc_track_format |->
                         DEFAULT_MULTIPLE_DISC_TRACK]
    /\ \E no_cover \in BOOLEAN, embed_art \in BOOLEAN, max_workers \in 1..MaxWorkers,
          one_dir \in BOOLEAN :
          /\ Len(catalog.tracks) > 1 => ~no_cover
          /\ one_dir => catalog.media_count > 1
          /\ max_workers > 1 => Len(catalog.tracks) > 1
          /\ settings = [no_cover |-> no_cover, embed_art |-> embed_art,
                         max_workers |-> max_workers,
                         multiple_disc_one_dir |-> one_dir,
                         multiple_disc_prefix |-> <<"C", "D">>,
                         multiple_disc_track_format |-> DEFAULT_MULTIPLE_DISC_TRACK,
                         fallback_folder_format |-> DEFAULT_FOLDER]
    /\ pc = "START"
    /\ format_info = NoFormat
    /\ parse = StreamInfo(FALSE, "absent", "absent", FALSE, FALSE)
    /\ local_folder_format = <<>>
    /\ dirn = <<>>
    /\ count = 0
    /\ jobs = [k \in Tracks |-> NoJob]
    /\ \E k \in Tracks :
          files \in {{}, {EarlierFinalFile(mode, self, settings, catalog, k)}}
    /\ dirs = {}
    /\ ledger = {}
    /\ steps = <<>>
    /\ chosen = 0
    /\ log = {}
    /\ config = [folder_format |-> self.folder_format,
                 track_format |-> self.track_format,
                 multiple_disc_track_format |-> settings.multiple_disc_track_format]
    /\ item = 1
    /\ arg = <<>>
    /\ result = <<>>

\* ------------------------------------------------------------------------
\* download_id_by_type and download_release
\* ------------------------------------------------------------------------

Did(name) == steps' = Append(steps, name)

\* logger.info / logger.warning / logger.error about track k (0: the item)
Logs(said, k, reason) == log' = IF said THEN log \cup {<<k, reason>>} ELSE log

\* download_id_by_type (lines 115-125)
Start ==
    /\ pc = "START"
    /\ self' = [self EXCEPT !.folder_format = self._original_folder_format,
                            !.track_format = self._original_track_format]
    /\ settings' = [settings EXCEPT !.multiple_disc_track_format =
                                        self._original_multiple_disc_track_format]
    /\ pc' = IF mode = "release" THEN "FETCH_METADATA" ELSE "T_GET_URL"
    /\ UNCHANGED <<others, log, chosen, mode, catalog, format_info, parse, local_folder_format, dirn, count,
                   jobs, files, dirs, ledger, steps>>

\* line 129: album_meta is the catalog's release from here on
FetchMetadata ==
    /\ pc = "FETCH_METADATA"
    /\ pc' = "CHECK_STREAMABLE"
    /\ Did("FETCH_METADATA")
    /\ UNCHANGED <<others, log, chosen, mode, self, settings, catalog, format_info, parse,
                   local_folder_format, dirn, count, jobs, files, dirs, ledger>>

\* a run that goes on to the format without the albums-only filter
FilterStepSkipped(album_meta) ==
    IF ~album_meta.streamable THEN "NOT_STREAMABLE" ELSE "RESOLVE_FORMAT"

\* a run that does not look at the streamable flag
StreamableNotChecked(album_meta) == "CHECK_FILTER"

\* where the run goes after the test of line 131
AfterStreamableCheck(album_meta) ==
    IF ~album_meta.streamable THEN "NOT_STREAMABLE" ELSE "CHECK_FILTER"

\* lines 131-132
CheckStreamable ==
    /\ pc = "CHECK_STREAMABLE"
    /\ pc' = AfterStreamableCheck(catalog)
    /\ Did("CHECK_STREAMABLE")
    /\ UNCHANGED <<others, log, chosen, mode, self, settings, catalog, format_info, parse,
                   local_folder_format, dirn, count, jobs, files, dirs, ledger>>

\* lines 134-139
CheckFilter ==
    /\ pc = "CHECK_FILTER"
    /\ pc' = IF FilteredOut(self.albums_only, catalog) THEN "FILTERED_OUT"
             ELSE "RESOLVE_FORMAT"
    /\ Did("CHECK_FILTER")
    /\ UNCHANGED <<others, log, chosen, mode, self, settings, catalog, format_info, parse,
                   local_folder_format, dirn, count, jobs, files, dirs, ledger>>

\* lines 146-147: _get_format asks the catalog for the first track's stream info
ResolveFormat ==
    /\ pc = "RESOLVE_FORMAT"
    /\ \E info \in StreamInfos, http_error \in BOOLEAN :
          format_info' = _get_format(self.quality, info, http_error)
    /\ pc' = "CHECK_QUALITY_GATE"
    /\ Did("RESOLVE_FORMAT")
    /\ UNCHANGED <<others, log, chosen, mode, self, settings, catalog, parse, local_folder_format, dirn,
                   count, jobs, files, dirs, ledger>>

\* lines 149-153
CheckQualityGate ==
    /\ pc = "CHECK_QUALITY_GATE"
    /\ pc' = IF QualityGateCloses(self.downgrade_quality, format_info.quality_met)
             THEN "QUALITY_NOT_MET" ELSE "RESOLVE_NAMES"
    /\ Did("CHECK_QUALITY_GATE")
    /\ UNCHANGED <<others, log, chosen, mode, self, settings, catalog, format_info, parse,
                   local_folder_format, dirn, count, jobs, files, dirs, ledger>>

\* the assignments of _determine_formats (lines 533-546)
Adopt(adopted) ==
    /\ self' = [self EXCEPT !.folder_format = adopted.folder_format,
                            !.track_format = adopted.track_format]
    /\ settings' = [settings EXCEPT !.multiple_disc_track_format =
                                        adopted.multiple_disc_track_format]
    /\ chosen' = adopted.chosen
    /\ Logs(adopted.chosen = 0, 0, "path_too_long")

\* lines 159-164
ResolveNames ==
    /\ pc = "RESOLVE_NAMES"
    /\ Adopt(ReleaseFormats(self, settings, catalog, format_info))
    /\ pc' = "CREATE_DIRS"
    /\ Did("RESOLVE_NAMES")
    /\ UNCHANGED <<others, mode, catalog, format_info, parse, local_folder_format, dirn, count,
                   jobs, files, dirs, ledger>>

\* os.makedirs(d, exist_ok=True) raises for the empty path
MakeDirs(d, next) ==
    /\ dirn' = d
    /\ dirs' = IF d = <<>> THEN dirs ELSE dirs \cup {d}
    /\ pc' = IF d = <<>> THEN "RAISED" ELSE next

\* lines 167-168
CreateDirs ==
    /\ pc = "CREATE_DIRS"
    /\ MakeDirs(ReleaseDirn(self, catalog, format_info), "FETCH_ARTWORK")
    /\ Did("CREATE_DIRS")
    /\ UNCHANGED <<others, log, chosen, mode, self, settings, catalog, format_info, parse,
                   local_folder_format, count, jobs, files, ledger>>

\* _get_extra(url, dirn, extra) (lines 594-611) when wanted: nothing is done if
\* the file exists; otherwise tqdm_download writes it, and raises when the
\* byte counts differ
GetExtra(wanted, extra, next) ==
    LET extra_file == PathJoin(dirn, extra)
    IN IF ~wanted \/ extra_file \in files
       THEN /\ pc' = next
            /\ UNCHANGED files
       ELSE \E total \in 0..MaxBytes, download_size \in 0..MaxBytes :
               /\ files' = files \cup {extra_file}
               /\ pc' = IF TransferRaises(total, download_size) THEN "RAISED" ELSE next

\* lines 170-173
FetchCover ==
    /\ pc = "FETCH_ARTWORK"
    /\ GetExtra(~settings.no_cover, CoverName, "FETCH_EMBED")
    /\ Did("FETCH_ARTWORK")
    /\ UNCHANGED <<others, log, chosen, mode, self, settings, catalog, format_info, parse,
                   local_folder_format, dirn, count, jobs, dirs, ledger>>

\* lines 175-178 (the releases of the model have no goodies, lines 180-181)
FetchEmbedCover ==
    /\ pc = "FETCH_EMBED"
    /\ GetExtra(settings.embed_art, EMB_COVER_NAME, "FAN_OUT_TRACKS")
    /\ UNCHANGED <<others, log, chosen, mode, self, settings, catalog, format_info, parse,
                   local_folder_format, dirn, count, jobs, dirs, ledger, steps>>

\* one turn of the loop of lines 190-209: the track's stream info is asked
\* for and its job is submitted to the pool, or the track is skipped as a
\* demo; a KeyError leaves the with-block, which waits for the pool
Dispatch ==
    /\ pc = "FAN_OUT_TRACKS"
    /\ count < Len(catalog.tracks)
    /\ \E info \in StreamInfos :
          LET k == count + 1
              c == SampleCheck(info)
          IN /\ jobs' = IF c = "ok"
                        THEN [jobs EXCEPT ![k].st = "queued", ![k].url = info.url]
                        ELSE IF c = "demo" THEN [jobs EXCEPT ![k].st = "demo"]
                        ELSE jobs
             /\ count' = IF c = "raise" THEN count ELSE count + 1
             /\ pc' = IF c = "raise" THEN "UNWIND"
                      ELSE IF count + 1 = Len(catalog.tracks) THEN "AWAIT_ALL"
                      ELSE "FAN_OUT_TRACKS"
    /\ steps' = IF count = 0 THEN Append(steps, "FAN_OUT_TRACKS") ELSE steps
    /\ Logs(jobs'[count + 1].st = "demo", count + 1, "demo")
    /\ UNCHANGED <<others, chosen, mode, self, settings, catalog, format_info, parse,
                   local_folder_format, dirn, files, dirs, ledger>>

\* a barrier that waits for the first job to end only
FirstCompleted == Dispatched = {} \/ \E k \in Dispatched : Terminated(k)

\* a barrier that does not wait at all
BarrierWithoutWait == TRUE

\* concurrent.futures.wait(futures) and the exit of the with-block
\* (lines 211-213): every submitted job has returned or raised
BarrierOpen == \A k \in Dispatched : Terminated(k)

\* lines 211-213
AwaitAll ==
    /\ pc = "AWAIT_ALL"
    /\ BarrierOpen
    /\ pc' = "CLEANUP_ARTWORK"
    /\ Did("AWAIT_ALL")
    /\ UNCHANGED <<others, log, chosen, mode, self, settings, catalog, format_info, parse,
                   local_folder_format, dirn, count, jobs, files, dirs, ledger>>

\* the with-block left by an exception (line 188): shutdown(wait=True), then
\* the exception reaches the caller
Unwind ==
    /\ pc = "UNWIND"
    /\ BarrierOpen
    /\ pc' = "RAISED"
    /\ UNCHANGED <<others, log, chosen, mode, self, settings, catalog, format_info, parse,
                   local_folder_format, dirn, count, jobs, files, dirs, ledger, steps>>

\* _clean_embed_art(dirn, settings) (lines 675-682): the files afterwards
_clean_embed_art(d, stg, fls) ==
    IF stg.embed_art /\ PathJoin(d, EMB_COVER_NAME) \in fls
    THEN fls \ {PathJoin(d, EMB_COVER_NAME)} ELSE fls

\* line 215
CleanupArtwork ==
    /\ pc = "CLEANUP_ARTWORK"
    /\ files' = _clean_embed_art(dirn, settings, files)
    /\ pc' = "RECORD_LEDGER"
    /\ Did("CLEANUP_ARTWORK")
    /\ UNCHANGED <<others, log, chosen, mode, self, settings, catalog, format_info, parse,
                   local_folder_format, dirn, count, jobs, dirs, ledger>>

\* the row handle_download_id is asked to store (lines 217-220, 281-284)
LedgerRow(media_type) ==
    [id |-> self.item_id, media_type |-> media_type, quality |-> self.quality,
     file_format |-> format_info.file_format, quality_met |-> format_info.quality_met,
     bit_depth |-> format_info.bit_depth, sampling_rate |-> format_info.sampling_rate,
     saved_path |-> dirn, status |-> "downloaded"]

\* lines 217-221
RecordLedger ==
    /\ pc = "RECORD_LEDGER"
    /\ ledger' = handle_download_id_add(ledger, self.download_db, LedgerRow("album"))
    /\ pc' = "DONE"
    /\ Did("RECORD_LEDGER")
    /\ UNCHANGED <<others, log, chosen, mode, self, settings, catalog, format_info, parse,
                   local_folder_format, dirn, count, jobs, files, dirs>>

\* ------------------------------------------------------------------------
\* _download_and_tag: the job of one track
\* ------------------------------------------------------------------------

Running == {k \in Tracks : jobs[k].st \in JobRunning}

SetJob(k, st) == jobs' = [jobs EXCEPT ![k].st = st]

\* lines 300-312: a worker of the pool takes the job; without a "url" the
\* job returns, otherwise the disc directory is made when the track has one
JobStart(k) ==
    /\ jobs[k].st = "queued"
    /\ Cardinality(Running) < settings.max_workers
    /\ IF ~jobs[k].url
       THEN /\ SetJob(k, "no_url")
            /\ UNCHANGED dirs
       ELSE /\ SetJob(k, "started")
            /\ dirs' = dirs \cup {JobRootDir(dirn, IF mode = "release"
                                                   THEN MultipleOf(catalog, k) ELSE 0,
                                             settings)}
    /\ Logs(~jobs[k].url, k, "not_available")
    /\ UNCHANGED <<others, chosen, mode, self, settings, catalog, pc, format_info, parse,
                   local_folder_format, dirn, count, files, ledger, steps>>

\* a job that does not look for the final file
ExistingNotChecked(final_file) ==
    IF ~final_file.ok THEN "name_failed" ELSE "transfer"

\* where the job goes after final_file is named (lines 318-335)
AfterNaming(final_file) ==
    IF ~final_file.ok THEN "name_failed"
    ELSE IF final_file.s \in files THEN "exists"
    ELSE "transfer"

\* lines 314-335: the final file is named (a KeyError of the template ends
\* the job); the job returns if the file is there
JobCheckExists(k) ==
    /\ jobs[k].st = "started"
    /\ jobs' = [jobs EXCEPT
                   ![k].st = AfterNaming(JobFinalFile(mode, self, settings, catalog,
                                                      dirn, k)),
                   ![k].existed = JobFinalFile(mode, self, settings, catalog,
                                               dirn, k).s \in files]
    /\ Logs(jobs'[k].st = "exists", k, "already_downloaded")
    /\ UNCHANGED <<others, chosen, mode, self, settings, catalog, pc, format_info, parse,
                   local_folder_format, dirn, count, files, dirs, ledger, steps>>

\* a job that tags whatever the transfer has left
TransferNotChecked(total, download_size) == "tag"

\* where the job goes after tqdm_download (line 337): the ConnectionError of
\* a byte-count mismatch is not caught in the job
AfterTransfer(total, download_size) ==
    IF TransferRaises(total, download_size) THEN "transfer_failed" ELSE "tag"

\* line 337: the bytes go to the temp file
JobTransfer(k) ==
    /\ jobs[k].st = "transfer"
    /\ \E total \in 0..MaxBytes, download_size \in 0..MaxBytes :
          jobs' = [jobs EXCEPT
                     ![k].st = AfterTransfer(total, download_size),
                     ![k].bytes = IF download_size = total THEN "all" ELSE "partial"]
    /\ files' = files \cup {JobTmpFile(mode, settings, catalog, dirn, k)}
    /\ UNCHANGED <<others, log, chosen, mode, self, settings, catalog, pc, format_info, parse,
                   local_folder_format, dirn, count, dirs, ledger, steps>>

\* a tag writer that renames the temp file before the step that fails
RenamedBeforeFailure(fls, filename, final_name, tagged) ==
    (fls \ {filename}) \cup {final_name}

\* the files after tag_flac / tag_mp3 (metadata.py lines 176-177, 229-230):
\* the temp file is renamed to the final file when nothing has raised before
AfterTagging(fls, filename, final_name, tagged) ==
    IF tagged THEN (fls \ {filename}) \cup {final_name} ELSE fls

\* os.path.join(root_dir, os.pardir), normalised
ParentDir(root_dir) ==
    IF \E i \in 1..Len(root_dir) : root_dir[i] = "/"
    THEN Head0(root_dir, SetMax({i \in 1..Len(root_dir) : root_dir[i] = "/"}) - 1)
    ELSE <<>>

\* _embed_flac_img / _embed_id3_img (metadata.py lines 86-127): the cover file
\* they read is in root_dir, or else in its parent directory
EmbedCoverFound(root_dir, fls) ==
    \/ PathJoin(root_dir, EMB_COVER_NAME) \in fls
    \/ PathJoin(ParentDir(root_dir), EMB_COVER_NAME) \in fls

\* root_dir of track k's job after lines 308-310
JobDir(k) ==
    JobRootDir(dirn, IF mode = "release" THEN MultipleOf(catalog, k) ELSE 0, settings)

\* em_image is on and tag_mp3 opens a cover file that is not there
\* (metadata.py lines 226-227, 125-126); tag_flac logs the same error and
\* goes on (lines 97-113)
EmbedRaises(k) ==
    self.embed_art /\ IsMp3(self.quality) /\ ~EmbedCoverFound(JobDir(k), files)

\* lines 338-351: the tag writer is called with self.embed_art, saves the tags
\* and renames the temp file to the final file (metadata.py lines 176-177,
\* 229-230); any exception of it is logged and the job returns
JobTag(k) ==
    /\ jobs[k].st = "tag"
    /\ \E tagged \in BOOLEAN :
          /\ EmbedRaises(k) => ~tagged
          /\ files' = AfterTagging(files, JobTmpFile(mode, settings, catalog, dirn, k),
                                   JobFinalFile(mode, self, settings, catalog, dirn, k).s,
                                   tagged)
          /\ SetJob(k, IF tagged THEN "done" ELSE "tag_failed")
          /\ Logs(~tagged, k, "error_tagging")
    /\ UNCHANGED <<others, chosen, mode, self, settings, catalog, pc, format_info, parse,
                   local_folder_format, dirn, count, dirs, ledger, steps>>

\* ------------------------------------------------------------------------
\* download_track
\* ------------------------------------------------------------------------

\* lines 224-226 and 285-287
TrackGetUrl ==
    /\ pc = "T_GET_URL"
    /\ \E info \in StreamInfos :
          /\ parse' = info
          /\ pc' = CASE SampleCheck(info) = "ok" -> "T_RESOLVE_FORMAT"
                     [] SampleCheck(info) = "demo" -> "DEMO"
                     [] OTHER -> "RAISED"
    /\ Did("CHECK_SAMPLE")
    /\ Logs(pc' = "DEMO", 1, "demo")
    /\ UNCHANGED <<others, chosen, mode, self, settings, catalog, format_info, local_folder_format,
                   dirn, count, jobs, files, dirs, ledger>>

\* lines 227-238
TrackResolveFormat ==
    /\ pc = "T_RESOLVE_FORMAT"
    /\ format_info' = _get_format(self.quality, parse, FALSE)
    /\ local_folder_format' =
           TrackLocalFolderFormat(self, _get_format(self.quality, parse, FALSE))
    /\ pc' = "T_QUALITY_GATE"
    /\ Did("RESOLVE_FORMAT")
    /\ UNCHANGED <<others, log, chosen, mode, self, settings, catalog, parse, dirn, count, jobs, files,
                   dirs, ledger>>

\* lines 240-245
TrackQualityGate ==
    /\ pc = "T_QUALITY_GATE"
    /\ pc' = IF QualityGateCloses(self.downgrade_quality, format_info.quality_met)
             THEN "QUALITY_NOT_MET" ELSE "T_RESOLVE_NAMES"
    /\ Did("CHECK_QUALITY_GATE")
    /\ UNCHANGED <<others, log, chosen, mode, self, settings, catalog, format_info, parse,
                   local_folder_format, dirn, count, jobs, files, dirs, ledger>>

\* lines 246-251
TrackResolveNames ==
    /\ pc = "T_RESOLVE_NAMES"
    /\ Adopt(TrackFormats(self, settings, TrackMeta(catalog), format_info))
    /\ pc' = "T_CREATE_DIRS"
    /\ Did("RESOLVE_NAMES")
    /\ UNCHANGED <<others, mode, catalog, format_info, parse, local_folder_format, dirn, count,
                   jobs, files, dirs, ledger>>

\* lines 254-255
TrackCreateDirs ==
    /\ pc = "T_CREATE_DIRS"
    /\ MakeDirs(TrackDirn(local_folder_format, self, TrackMeta(catalog), format_info),
                "T_FETCH_ARTWORK")
    /\ Did("CREATE_DIRS")
    /\ UNCHANGED <<others, log, chosen, mode, self, settings, catalog, format_info, parse,
                   local_folder_format, count, jobs, files, ledger>>

\* lines 257-260
TrackFetchCover ==
    /\ pc = "T_FETCH_ARTWORK"
    /\ GetExtra(~settings.no_cover, CoverName, "T_FETCH_EMBED")
    /\ Did("FETCH_ARTWORK")
    /\ UNCHANGED <<others, log, chosen, mode, self, settings, catalog, format_info, parse,
                   local_folder_format, dirn, count, jobs, dirs, ledger>>

\* lines 262-266
TrackFetchEmbedCover ==
    /\ pc = "T_FETCH_EMBED"
    /\ GetExtra(settings.embed_art, EMB_COVER_NAME, "T_CALL_JOB")
    /\ UNCHANGED <<others, log, chosen, mode, self, settings, catalog, format_info, parse,
                   local_folder_format, dirn, count, jobs, dirs, ledger, steps>>

\* lines 267-277: the job is called in the caller's thread
TrackCallJob ==
    /\ pc = "T_CALL_JOB"
    /\ jobs' = [jobs EXCEPT ![1].st = "queued", ![1].url = parse.url]
    /\ count' = 1
    /\ pc' = "T_IN_JOB"
    /\ Did("DOWNLOAD_TRACK")
    /\ UNCHANGED <<others, log, chosen, mode, self, settings, catalog, format_info, parse,
                   local_folder_format, dirn, files, dirs, ledger>>

\* the call of lines 268-277 returns, or its exception leaves download_track
TrackJobReturns ==
    /\ pc = "T_IN_JOB"
    /\ Terminated(1)
    /\ pc' = IF jobs[1].st \in {"transfer_failed", "name_failed"} THEN "RAISED"
             ELSE "T_CLEANUP_ARTWORK"
    /\ UNCHANGED <<others, log, chosen, mode, self, settings, catalog, format_info, parse,
                   local_folder_format, dirn, count, jobs, files, dirs, ledger, steps>>

\* line 279
TrackCleanupArtwork ==
    /\ pc = "T_CLEANUP_ARTWORK"
    /\ files' = _clean_embed_art(dirn, settings, files)
    /\ pc' = "T_RECORD_LEDGER"
    /\ Did("CLEANUP_ARTWORK")
    /\ UNCHANGED <<others, log, chosen, mode, self, settings, catalog, format_info, parse,
                   local_folder_format, dirn, count, jobs, dirs, ledger>>

\* lines 281-284
TrackRecordLedger ==
    /\ pc = "T_RECORD_LEDGER"
    /\ ledger' = handle_download_id_add(ledger, self.download_db, LedgerRow("track"))
    /\ pc' = "DONE"
    /\ Did("RECORD_LEDGER")
    /\ UNCHANGED <<others, log, chosen, mode, self, settings, catalog, format_info, parse,
                   local_folder_format, dirn, count, jobs, files, dirs>>

\* ------------------------------------------------------------------------
\* The download of one item: specification
\* ------------------------------------------------------------------------

Next ==
    \/ Start
    \/ FetchMetadata
    \/ CheckStreamable
    \/ CheckFilter
    \/ ResolveFormat
    \/ CheckQualityGate
    \/ ResolveNames
    \/ CreateDirs
    \/ FetchCover
    \/ FetchEmbedCover
    \/ Dispatch
    \/ AwaitAll
    \/ Unwind
    \/ CleanupArtwork
    \/ RecordLedger
    \/ \E k \in Tracks : JobStart(k)
    \/ \E k \in Tracks : JobCheckExists(k)
    \/ \E k \in Tracks : JobTransfer(k)
    \/ \E k \in Tracks : JobTag(k)
    \/ TrackGetUrl
    \/ TrackResolveFormat
    \/ TrackQualityGate
    \/ TrackResolveNames
    \/ TrackCreateDirs
    \/ TrackFetchCover
    \/ TrackFetchEmbedCover
    \/ TrackCallJob
    \/ TrackJobReturns
    \/ TrackCleanupArtwork
    \/ TrackRecordLedger

Spec == Init /\ [][Next]_vars

\* ------------------------------------------------------------------------
\* Properties of the download of one item
\* ------------------------------------------------------------------------

StepsDone == {steps[i] : i \in 1..Len(steps)}

Live(k) == jobs[k].st \in {"queued", "started", "transfer", "tag"}

DoneJobs == {k \in Tracks : jobs[k].st = "done"}

FinalOnDisk(k) == JobFinalFile(mode, self, settings, catalog, dirn, k).s \in files

TmpOnDisk(k) == JobTmpFile(mode, settings, catalog, dirn, k) \in files

EmbedCoverOnDisk == PathJoin(dirn, EMB_COVER_NAME) \in files

IsArtwork(f) == EndsWith(f, CoverName) \/ EndsWith(f, EMB_COVER_NAME)

PastBarrier == pc \in {"AWAIT_ALL", "CLEANUP_ARTWORK", "RECORD_LEDGER", "DONE"}

\* C1: in download_release the embed cover is deleted and the ledger record
\* is written only after every dispatched track job has returned or raised:
\* while a job of the release is queued or running the cleanup and the ledger
\* steps have not been performed, the ledger is empty and the embed cover the
\* run has fetched is still on disk.
C1_BarrierBeforeCleanupAndLedger ==
    mode = "release" =>
        \A k \in Tracks :
            Live(k) =>
                /\ "CLEANUP_ARTWORK" \notin StepsDone
                /\ "RECORD_LEDGER" \notin StepsDone
                /\ ledger = {}
                /\ settings.embed_art => EmbedCoverOnDisk

C1_Witness ==
    /\ mode = "release"
    /\ pc = "DONE"
    /\ settings.embed_art
    /\ ~EmbedCoverOnDisk
    /\ ledger # {}
    /\ Cardinality(DoneJobs) >= 2

TagFailures == {k \in Dispatched : jobs[k].st = "tag_failed"}

\* every track has been looked at, and each of the K dispatched jobs has
\* come through the tag writer or has failed in it
OnlyTagFailures ==
    /\ mode = "release"
    /\ count = Len(catalog.tracks)
    /\ Dispatched # {}
    /\ \A k \in Dispatched : jobs[k].st \in {"done", "tag_failed"}

\* C2: when M of the K dispatched jobs of a release fail in the tag writer
\* and the others succeed, the run is at or past its barrier and has not
\* raised, the barrier lets it through, exactly K - M final files of the
\* dispatched tracks are on disk, and once the run has returned the ledger
\* of a configured database holds exactly one record.
C2_TagFailuresAreContained ==
    OnlyTagFailures =>
        /\ PastBarrier
        /\ pc = "AWAIT_ALL" => ENABLED AwaitAll
        /\ Cardinality({k \in Dispatched : FinalOnDisk(k)})
               = Cardinality(Dispatched) - Cardinality(TagFailures)
        /\ (pc = "DONE" /\ self.download_db # "") => Cardinality(ledger) = 1

C2_Witness ==
    /\ OnlyTagFailures
    /\ pc = "DONE"
    /\ self.download_db # ""
    /\ Cardinality(Dispatched) = 2
    /\ Cardinality(TagFailures) = 1

ReleaseOrder ==
    <<"FETCH_METADATA", "CHECK_STREAMABLE", "CHECK_FILTER", "RESOLVE_FORMAT",
      "CHECK_QUALITY_GATE", "RESOLVE_NAMES", "CREATE_DIRS", "FETCH_ARTWORK",
      "FAN_OUT_TRACKS", "AWAIT_ALL", "CLEANUP_ARTWORK", "RECORD_LEDGER">>

\* C3: the steps download_release has performed are always an initial part
\* of: fetch metadata, streamable check, albums-only filter, resolve format,
\* quality gate, resolve names, create directory, fetch artwork, dispatch
\* jobs, wait for all jobs, delete the embed cover, write the ledger record;
\* a run that has reached DONE has performed all of them, the ledger record
\* last.
C3_StepsInOrder ==
    mode = "release" =>
        /\ \E n \in 0..Len(ReleaseOrder) : steps = SubSeq(ReleaseOrder, 1, n)
        /\ pc = "DONE" => steps = ReleaseOrder

C3_Witness ==
    /\ mode = "release"
    /\ pc = "DONE"
    /\ steps = ReleaseOrder
    /\ Len(catalog.tracks) > 1

\* C4: a release that is not streamable ends in NonStreamable at the
\* streamable check; at that outcome no track has been looked at, no job has
\* been submitted, no directory made, no artwork fetched and no ledger
\* record written.
C4_NotStreamableBeforeAnything ==
    mode = "release" =>
        /\ (~catalog.streamable /\ "CHECK_STREAMABLE" \in StepsDone)
               => pc = "NOT_STREAMABLE"
        /\ pc = "NOT_STREAMABLE" =>
               /\ ~catalog.streamable
               /\ count = 0
               /\ \A k \in Tracks : jobs[k] = NoJob
               /\ dirs = {}
               /\ dirn = <<>>
               /\ \A f \in files : ~IsArtwork(f)
               /\ ledger = {}

C4_Witness ==
    /\ mode = "release"
    /\ pc = "NOT_STREAMABLE"
    /\ ~catalog.streamable

\* C5: a release the albums-only policy filters out, an item whose quality
\* is not met while downgrade is not allowed (either mode), and a track-mode
\* item that is a sample or demo make the operation return normally at that
\* test; at these outcomes no job has been submitted, no transfer has
\* received anything and the ledger is empty.
C5_BenignEarlyExit ==
    /\ (/\ mode = "release"
        /\ catalog.streamable
        /\ self.albums_only
        /\ catalog.release_type # "album" \/ catalog.artist = VariousArtists
        /\ "CHECK_FILTER" \in StepsDone)
           => pc = "FILTERED_OUT"
    /\ (/\ ~self.downgrade_quality
        /\ ~format_info.quality_met
        /\ "CHECK_QUALITY_GATE" \in StepsDone)
           => pc = "QUALITY_NOT_MET"
    /\ (/\ mode = "track"
        /\ "CHECK_SAMPLE" \in StepsDone
        /\ parse.sample \/ parse.sampling_rate = "falsy")
           => pc = "DEMO"
    /\ pc \in {"FILTERED_OUT", "QUALITY_NOT_MET", "DEMO"} =>
           /\ \A k \in Tracks : jobs[k] = NoJob
           /\ \A f \in files : ~IsArtwork(f)
           /\ dirs = {}
           /\ ledger = {}

C5_Witness ==
    /\ mode = "track"
    /\ pc = "QUALITY_NOT_MET"
    /\ ~format_info.quality_met
    /\ ~self.downgrade_quality
    /\ self.download_db # ""

\* C6: a job is in or past the tag writer only if its transfer has received
\* all the announced bytes; a job whose transfer has ended with a byte-count
\* mismatch has failed there, and its final file is not on disk.
C6_TagOnlyAfterTransfer ==
    \A k \in Tracks :
        /\ jobs[k].st \in {"tag", "done", "tag_failed"} => jobs[k].bytes = "all"
        /\ jobs[k].bytes = "partial" =>
               /\ jobs[k].st = "transfer_failed"
               /\ ~FinalOnDisk(k)

C6_Witness ==
    /\ mode = "release"
    /\ pc = "DONE"
    /\ \E k \in Tracks :
          /\ jobs[k].bytes = "partial"
          /\ jobs[k].st = "transfer_failed"
          /\ TmpOnDisk(k)
          /\ ~FinalOnDisk(k)

MinMargin == 32
MaxMargin == 35

\* a release whose album title has the given length; the last track of a
\* release of several tracks has the longer title
LongRelease(media_count, n, len) ==
    [Release(TRUE, "album", <<"A">>, media_count, n) EXCEPT
        !.title = Rep("a", len),
        !.tracks[n].title = IF n > 1 THEN <<"t", "t">> ELSE <<"t">>]

\* the last one names a field that is no key of album_attr or track_attr
FolderTemplates ==
    {DEFAULT_FOLDER, DEFAULT_FOLDER \o <<"+">>, <<"{album_artist}", "/", "{album_title}">>,
     <<"{isrc}", " ", "{album_title}">>}

TrackTemplates ==
    {DEFAULT_TRACK, DEFAULT_TRACK \o <<"+">>, <<"{upc}", " ", "{track_title}">>}

FallbackTemplates == {DEFAULT_FOLDER, DEFAULT_FOLDER \o <<"+">>}

InitNaming ==
    /\ mode \in {"release", "track"}
    /\ \E media_count \in {1, 2}, n \in 1..MaxTracks, m \in MinMargin..MaxMargin :
          /\ mode = "track" => n = 1
          /\ media_count > 1 => n > 1 \/ mode = "track"
          /\ catalog = LongRelease(media_count, n, OK_MAX_CHARACTER_LENGTH - m)
    /\ \E quality \in {5, 27}, folder \in FolderTemplates, track \in TrackTemplates :
          /\ quality = 5 => folder = DEFAULT_FOLDER
          /\ mode = "track" => track = DEFAULT_TRACK
          /\ self = [item_id |-> ITEM_ID, path |-> BasePath, quality |-> quality,
                     embed_art |-> FALSE,
                     albums_only |-> FALSE, downgrade_quality |-> TRUE,
                     download_db |-> "",
                     folder_format |-> folder, track_format |-> track,
                     _original_folder_format |-> folder,
                     _original_track_format |-> track,
                     _original_multiple_disc_track_format |->
                         DEFAULT_MULTIPLE_DISC_TRACK]
    /\ \E one_dir \in BOOLEAN, fallback \in FallbackTemplates :
          /\ one_dir => catalog.media_count > 1
          /\ settings = [no_cover |-> TRUE, embed_art |-> FALSE, max_workers |-> 1,
                         multiple_disc_one_dir |-> one_dir,
                         multiple_disc_prefix |-> <<"C", "D">>,
                         multiple_disc_track_format |-> DEFAULT_MULTIPLE_DISC_TRACK,
                         fallback_folder_format |-> fallback]
    /\ pc = "START"
    /\ format_info = NoFormat
    /\ parse = StreamInfo(FALSE, "absent", "absent", FALSE, FALSE)
    /\ local_folder_format = <<>>
    /\ dirn = <<>>
    /\ count = 0
    /\ jobs = [k \in Tracks |-> NoJob]
    /\ files = {}
    /\ dirs = {}
    /\ ledger = {}
    /\ steps = <<>>
    /\ chosen = 0
    /\ log = {}
    /\ config = [folder_format |-> self.folder_format,
                 track_format |-> self.track_format,
                 multiple_disc_track_format |-> settings.multiple_disc_track_format]
    /\ item = 1
    /\ arg = <<>>
    /\ result = <<>>

NextNaming ==
    \/ Start
    \/ FetchMetadata
    \/ CheckStreamable
    \/ CheckFilter
    \/ ResolveFormat
    \/ CheckQualityGate
    \/ ResolveNames
    \/ CreateDirs
    \/ TrackGetUrl
    \/ TrackResolveFormat
    \/ TrackQualityGate
    \/ TrackResolveNames
    \/ TrackCreateDirs

SpecNaming == InitNaming /\ [][NextNaming]_vars

\* ------------------------------------------------------------------------
\* Properties of the naming of one item
\* ------------------------------------------------------------------------

\* _determine_formats has just returned
Resolved == pc \in {"CREATE_DIRS", "T_CREATE_DIRS"}

\* what the run has passed to _determine_formats
ResolverAttr ==
    IF mode = "release" THEN AlbumAttrOf(catalog, format_info)
    ELSE TrackAttrOf(TrackMeta(catalog), format_info)

ResolverTracks == IF mode = "release" THEN catalog.tracks ELSE <<TrackMeta(catalog)>>

ResolverAlbum == IF mode = "release" THEN catalog ELSE TrackMeta(catalog).album

\* the four candidates in the order of the docstring of _determine_formats
Candidate(i) ==
    CASE i = 1 -> <<self._original_folder_format, self._original_track_format,
                    self._original_multiple_disc_track_format>>
      [] i = 2 -> <<settings.fallback_folder_format, self._original_track_format,
                    self._original_multiple_disc_track_format>>
      [] i = 3 -> <<settings.fallback_folder_format, DEFAULT_TRACK,
                    DEFAULT_MULTIPLE_DISC_TRACK>>
      [] i = 4 -> <<DEFAULT_FOLDER, DEFAULT_TRACK, DEFAULT_MULTIPLE_DISC_TRACK>>

CleanedCandidate(i) ==
    _clean_format_str(Candidate(i)[1], Candidate(i)[2], format_info.file_format)

\* the evaluated path of every track in scope under candidate i
PathsUnder(folder_fmt, track_fmt, multi_disc_fmt) ==
    {EvaluatedPath(process_folder_format_with_subdirs(folder_fmt, ResolverAttr, <<>>),
                   track_fmt, multi_disc_fmt, ResolverTracks[k], ResolverAlbum,
                   settings, format_info.file_format) : k \in 1..Len(ResolverTracks)}

CandidatePaths(i) ==
    PathsUnder(CleanedCandidate(i)[1], CleanedCandidate(i)[2], Candidate(i)[3])

\* whether every path of a candidate has rendered, and the lengths of its
\* paths
Summary(paths) ==
    [ok |-> \A p \in paths : p.ok, lens |-> {Len(p.s) : p \in paths}]

Summaries ==
    <<Summary(CandidatePaths(1)), Summary(CandidatePaths(2)),
      Summary(CandidatePaths(3)), Summary(CandidatePaths(4))>>

Fits(sm) == sm.ok /\ \A n \in sm.lens : n <= OK_MAX_CHARACTER_LENGTH

FirstFit(sums) ==
    IF \E i \in 1..4 : Fits(sums[i]) THEN SetMin({i \in 1..4 : Fits(sums[i])}) ELSE 0

AdoptedIs(i) ==
    /\ chosen = i
    /\ i # 0 =>
           /\ self.folder_format = CleanedCandidate(i)[1]
           /\ self.track_format = CleanedCandidate(i)[2]
           /\ settings.multiple_disc_track_format = Candidate(i)[3]

OnlyLastFits(sums) == Fits(sums[4]) /\ \A i \in 1..3 : ~Fits(sums[i])

\* C8: when _determine_formats has returned, the candidate it has adopted is
\* the first of (original folder, original track), (fallback folder,
\* original track), (fallback folder, default track), (default folder,
\* default track) under which every track's evaluated path is within
\* OK_MAX_CHARACTER_LENGTH, and the adopted templates are that candidate's;
\* when only the last one fits, the last one is adopted.
C8_FirstFittingCandidate == Resolved => AdoptedIs(FirstFit(Summaries))

C8_Witness ==
    /\ Resolved
    /\ chosen = 4
    /\ self.folder_format = DEFAULT_FOLDER
    /\ settings.fallback_folder_format # DEFAULT_FOLDER
    /\ OnlyLastFits(Summaries)

\* C9 as amended: when the resolver has adopted a candidate that it has
\* found valid, every track's evaluated path (folder segments, the disc
\* directory where discs are kept apart, track filename and the extension
\* the resolver uses; the base output path is no part of it) has at most
\* OK_MAX_CHARACTER_LENGTH characters.
C9_EvaluatedPathWithinLimit ==
    (Resolved /\ chosen # 0) =>
        \A p \in PathsUnder(self.folder_format, self.track_format,
                            settings.multiple_disc_track_format) :
            p.ok /\ Len(p.s) <= OK_MAX_CHARACTER_LENGTH

C9_Witness ==
    /\ Resolved
    /\ chosen # 0
    /\ \E p \in PathsUnder(self.folder_format, self.track_format,
                           settings.multiple_disc_track_format) :
          p.ok /\ Len(p.s) = OK_MAX_CHARACTER_LENGTH

\* C9 as claimed: the path joined from the base output path, the folder
\* segments, the track filename and the extension has at most
\* OK_MAX_CHARACTER_LENGTH characters for every track under a candidate the
\* resolver has accepted.
C9_JoinedPathWithinLimit ==
    (Resolved /\ chosen # 0) =>
        \A p \in PathsUnder(self.folder_format, self.track_format,
                            settings.multiple_disc_track_format) :
            p.ok /\ Len(PathJoin(self.path, p.s)) <= OK_MAX_CHARACTER_LENGTH

AtLimit(sm) == sm.ok /\ SetMax(sm.lens) = OK_MAX_CHARACTER_LENGTH

OneOver(sm) == sm.ok /\ OK_MAX_CHARACTER_LENGTH + 1 \in sm.lens

LimitIsInclusive(sums) ==
    \A i \in 1..4 :
        /\ (AtLimit(sums[i]) /\ \A j \in 1..(i - 1) : ~Fits(sums[j])) => chosen = i
        /\ OneOver(sums[i]) => chosen # i

\* C10: a candidate whose evaluated paths all render and whose longest one
\* has exactly OK_MAX_CHARACTER_LENGTH characters is accepted: it is the one
\* adopted unless a candidate before it fits; a candidate with an evaluated
\* path of OK_MAX_CHARACTER_LENGTH + 1 characters is rejected: it is not the
\* one adopted.
C10_LimitIsInclusive == Resolved => LimitIsInclusive(Summaries)

AdoptedAtLimitAfterOneOver(sums) ==
    /\ chosen > 1
    /\ AtLimit(sums[chosen])
    /\ OneOver(sums[chosen - 1])

C10_Witness == Resolved /\ AdoptedAtLimitAfterOneOver(Summaries)

NoneFits(sums) == \A i \in 1..4 : ~Fits(sums[i])

DefaultAdopted ==
    /\ chosen = 0
    /\ self.folder_format = DEFAULT_FOLDER
    /\ self.track_format = DEFAULT_TRACK
    /\ settings.multiple_disc_track_format = DEFAULT_MULTIPLE_DISC_TRACK

PathTooLongWarned == <<0, "path_too_long">> \in log

\* C11: when _determine_formats has returned and none of the four candidates
\* is valid, the templates are DEFAULT_FOLDER, DEFAULT_TRACK and
\* DEFAULT_MULTIPLE_DISC_TRACK and the warning has been logged (and only
\* then); the run with these templates makes its directory and goes on to
\* the artwork.
C11_DefaultWhenNoneFits ==
    /\ Resolved =>
           /\ NoneFits(Summaries) => DefaultAdopted
           /\ PathTooLongWarned <=> chosen = 0
    /\ (PathTooLongWarned /\ "CREATE_DIRS" \in StepsDone) =>
           /\ pc \in {"FETCH_ARTWORK", "T_FETCH_ARTWORK"}
           /\ dirn # <<>>
           /\ dirn \in dirs

\* the default templates are in use although a track's evaluated path under
\* them is over the limit
C11_Witness ==
    /\ PathTooLongWarned
    /\ DefaultAdopted
    /\ pc = "FETCH_ARTWORK"
    /\ \E p \in PathsUnder(self.folder_format, self.track_format,
                           settings.multiple_disc_track_format) :
          p.ok /\ Len(p.s) > OK_MAX_CHARACTER_LENGTH

\* whether every part of a folder template renders with the attributes the
\* resolver has been given
FolderRenders(folder_fmt) ==
    \A n \in 1..Len(Split(folder_fmt, "/")) :
        Format(Split(folder_fmt, "/")[n], ResolverAttr).ok

\* C12: a candidate whose folder template or whose track template (for some
\* track in scope) does not render because a field is no key of the
\* attribute mapping is not the candidate adopted.
C12_UnrenderableNeverAdopted ==
    Resolved =>
        \A i \in 1..4 :
            (~FolderRenders(CleanedCandidate(i)[1]) \/ ~Summaries[i].ok) => chosen # i

\* ------------------------------------------------------------------------
\* Several items, one after the other
\* ------------------------------------------------------------------------

MaxItems == 2

\* a multi-disc track template the user configured, one character longer
\* than the default one
ConfiguredMultipleDiscTrack == DEFAULT_MULTIPLE_DISC_TRACK \o <<"+">>

ItemReleases ==
    {LongRelease(media_count, n, OK_MAX_CHARACTER_LENGTH - m) :
        media_count \in {1, 2}, n \in 1..MaxTracks, m \in {MinMargin, MaxMargin}}

\* Download.__init__ (lines 105-113) with the settings object it is given:
\* the original multi-disc track template is read from the settings
NewDownload(folder_format, track_format, stg) ==
    [item_id |-> ITEM_ID, path |-> BasePath, quality |-> 27, embed_art |-> FALSE,
     albums_only |-> FALSE, downgrade_quality |-> TRUE, download_db |-> "",
     folder_format |-> folder_format, track_format |-> track_format,
     _original_folder_format |-> folder_format,
     _original_track_format |-> track_format,
     _original_multiple_disc_track_format |-> stg.multiple_disc_track_format]

InitItems ==
    /\ mode \in {"release", "track"}
    /\ catalog \in ItemReleases
    /\ mode = "track" => Len(catalog.tracks) = 1
    /\ \E one_dir \in BOOLEAN :
          settings = [no_cover |-> TRUE, embed_art |-> FALSE, max_workers |-> 1,
                      multiple_disc_one_dir |-> one_dir,
                      multiple_disc_prefix |-> <<"C", "D">>,
                      multiple_disc_track_format |-> ConfiguredMultipleDiscTrack,
                      fallback_folder_format |-> DEFAULT_FOLDER]
    /\ self = NewDownload(DEFAULT_FOLDER \o <<"+">>, DEFAULT_TRACK \o <<"+">>, settings)
    /\ pc = "START"
    /\ format_info = NoFormat
    /\ parse = StreamInfo(FALSE, "absent", "absent", FALSE, FALSE)
    /\ local_folder_format = <<>>
    /\ dirn = <<>>
    /\ count = 0
    /\ jobs = [k \in Tracks |-> NoJob]
    /\ files = {}
    /\ dirs = {}
    /\ ledger = {}
    /\ steps = <<>>
    /\ chosen = 0
    /\ log = {}
    /\ config = [folder_format |-> self.folder_format,
                 track_format |-> self.track_format,
                 multiple_disc_track_format |-> settings.multiple_disc_track_format]
    /\ item = 1
    /\ arg = <<>>
    /\ result = <<>>

\* the item's names are resolved and its directory is made; what is left of
\* download_release and download_track assigns none of the templates
ItemNamed == pc \in {"FETCH_ARTWORK", "T_FETCH_ARTWORK"}

\* what every call of download_release or download_track starts from
NextItem ==
    /\ ItemNamed
    /\ item < MaxItems
    /\ item' = item + 1
    /\ pc' = "START"
    /\ format_info' = NoFormat
    /\ parse' = StreamInfo(FALSE, "absent", "absent", FALSE, FALSE)
    /\ local_folder_format' = <<>>
    /\ dirn' = <<>>
    /\ count' = 0
    /\ steps' = <<>>
    /\ chosen' = 0
    /\ UNCHANGED <<config, arg, result, log, settings, files, dirs, ledger>>

\* download_id_by_type is called again on the same Download object
SameDownloadAgain ==
    /\ NextItem
    /\ jobs' = [k \in Tracks |-> NoJob]
    /\ UNCHANGED <<mode, catalog, self>>

\* the caller makes a Download object for the next item, with the
\* configured folder and track templates and the settings object it made the
\* earlier ones with
NewDownloadSameSettings ==
    /\ NextItem
    /\ mode' \in {"release", "track"}
    /\ catalog' \in ItemReleases
    /\ mode' = "track" => Len(catalog'.tracks) = 1
    /\ jobs' = [k \in 1..Len(catalog'.tracks) |-> NoJob]
    /\ self' = NewDownload(config.folder_format, config.track_format, settings)

NextItems ==
    \/ Start
    \/ FetchMetadata
    \/ CheckStreamable
    \/ CheckFilter
    \/ ResolveFormat
    \/ CheckQualityGate
    \/ ResolveNames
    \/ CreateDirs
    \/ TrackGetUrl
    \/ TrackResolveFormat
    \/ TrackQualityGate
    \/ TrackResolveNames
    \/ TrackCreateDirs
    \/ SameDownloadAgain
    \/ NewDownloadSameSettings

SpecItems == InitItems /\ [][NextItems]_vars

\* _determine_formats is about to be called for the item
BeforeResolver == pc \in {"RESOLVE_NAMES", "T_RESOLVE_NAMES"}

\* the first candidate of format_combinations (lines 474-475)
StartingScheme ==
    [folder_format |-> self._original_folder_format,
     track_format |-> self._original_track_format,
     multiple_disc_track_format |-> self._original_multiple_disc_track_format]

\* C13: for every item of a sequence, made by the same Download object or by
\* a new one with the same settings object, the first candidate the resolver
\* evaluates is made of the configured folder, track and multi-disc track
\* templates, whatever was adopted for the items before.
C13_ItemsStartFromConfigured == BeforeResolver => StartingScheme = config

\* ------------------------------------------------------------------------
\* The ledger on its own: calls of handle_download_id, in any order
\* ------------------------------------------------------------------------

MaxCalls == 3

\* the database create_db has made, and no database
DbPaths == {"", "db"}

LedgerIds == {"a", "b"}

LedgerQualities == {5, 27}

LedgerRows ==
    {[id |-> id, media_type |-> "album", quality |-> quality,
      file_format |-> IF quality = 5 THEN "MP3" ELSE "FLAC", quality_met |-> TRUE,
      bit_depth |-> NoneText, sampling_rate |-> NoneText,
      saved_path |-> saved_path, status |-> "downloaded"] :
        id \in LedgerIds, quality \in LedgerQualities, saved_path \in {<<"d">>, <<"e">>}}

InitLedger ==
    /\ mode = "ledger"
    /\ catalog = Release(TRUE, "album", <<"A">>, 1, 1)
    /\ settings = [no_cover |-> TRUE, embed_art |-> FALSE, max_workers |-> 1,
                   multiple_disc_one_dir |-> FALSE,
                   multiple_disc_prefix |-> <<"C", "D">>,
                   multiple_disc_track_format |-> DEFAULT_MULTIPLE_DISC_TRACK,
                   fallback_folder_format |-> DEFAULT_FOLDER]
    /\ self = NewDownload(DEFAULT_FOLDER, DEFAULT_TRACK, settings)
    /\ pc = "LEDGER"
    /\ format_info = NoFormat
    /\ parse = StreamInfo(FALSE, "absent", "absent", FALSE, FALSE)
    /\ local_folder_format = <<>>
    /\ dirn = <<>>
    /\ count = 0
    /\ jobs = [k \in Tracks |-> NoJob]
    /\ files = {}
    /\ dirs = {}
    /\ ledger = {}
    /\ steps = <<>>
    /\ chosen = 0
    /\ log = {}
    /\ config = [folder_format |-> self.folder_format,
                 track_format |-> self.track_format,
                 multiple_disc_track_format |-> settings.multiple_disc_track_format]
    /\ item = 1
    /\ arg = <<>>
    /\ result = <<>>

\* a call of handle_download_id is made and returns
Called(call) ==
    /\ pc = "LEDGER"
    /\ Len(steps) < MaxCalls
    /\ arg' = call
    /\ steps' = Append(steps, call)
    /\ UNCHANGED <<config, item, chosen, mode, self, settings, catalog, pc, format_info, parse,
                   local_folder_format, dirn, count, jobs, files, dirs>>

\* handle_download_id(db_path, ..., add_id=True) (lines 37-54): returns None,
\* after logging the error of an INSERT that failed
Record(db_path, row) ==
    /\ Called(<<"record", db_path, row>>)
    /\ ledger' = handle_download_id_add(ledger, db_path, row)
    /\ Logs(db_path # "" /\ IntegrityError(ledger, row), 0, "db_error")
    /\ result' = NoneText

\* handle_download_id(db_path, item_id, add_id=False, quality=quality)
\* (lines 37-38, 56-59)
HasRecord(db_path, item_id, quality) ==
    /\ Called(<<"has", db_path, item_id, quality>>)
    /\ result' = handle_download_id_has(ledger, db_path, item_id, quality)
    /\ UNCHANGED <<ledger, log>>

NextLedger ==
    \/ \E db_path \in DbPaths, row \in LedgerRows : Record(db_path, row)
    \/ \E db_path \in DbPaths, item_id \in LedgerIds, quality \in LedgerQualities :
          HasRecord(db_path, item_id, quality)

SpecLedger == InitLedger /\ [][NextLedger]_vars

\* the record calls made so far on the database, with their positions
RecordCalls == {i \in 1..Len(steps) : steps[i][1] = "record" /\ steps[i][2] # ""}

RowsOf(item_id, quality) == {r \in ledger : r.id = item_id /\ r.quality = quality}

RecordedBefore(n, item_id, quality) ==
    \E i \in RecordCalls : i < n /\ steps[i][3].id = item_id /\ steps[i][3].quality = quality

\* C14: whatever calls have been made, every (id, quality) a record call was
\* made with on the database has exactly one stored row, which is the row of
\* the first of these calls, and a has_record call on the database finds the
\* key exactly when a record call for it was made before.
C14_RecordIsIdempotent ==
    /\ \A i \in RecordCalls :
          LET row == steps[i][3] IN
          /\ Cardinality(RowsOf(row.id, row.quality)) = 1
          /\ ~RecordedBefore(i, row.id, row.quality) => row \in ledger
    /\ (steps # <<>> /\ arg[1] = "has" /\ arg[2] # "") =>
           (result <=> RecordedBefore(Len(steps), arg[3], arg[4]))

\* record was called twice with one key and two saved paths, then has_record
C14_Witness ==
    /\ Len(steps) = 3
    /\ RecordCalls = {1, 2}
    /\ steps[1][3].id = steps[2][3].id
    /\ steps[1][3].quality = steps[2][3].quality
    /\ steps[1][3] # steps[2][3]
    /\ arg = <<"has", "db", steps[1][3].id, steps[1][3].quality>>
    /\ result = TRUE

RecordCalled == steps' # steps /\ arg'[1] = "record" /\ arg'[2] # ""

\* C15: no call removes or changes a stored row; a record call on the
\* database returns None; when its key is stored the table stays as it is and
\* the error is logged; when it is not, and also when the id is stored with
\* another quality, its row is added.
C15_RowsAreNeverChanged ==
    [][/\ ledger \subseteq ledger'
       /\ RecordCalled =>
            /\ pc' = "LEDGER"
            /\ result' = NoneText
            /\ IF RowsOf(arg'[3].id, arg'[3].quality) # {}
               THEN ledger' = ledger /\ <<0, "db_error">> \in log'
               ELSE ledger' = ledger \cup {arg'[3]} /\ log' = log]_vars

\* a key was recorded twice and the id has a row for each quality
C15_Witness ==
    /\ <<0, "db_error">> \in log
    /\ \E id \in LedgerIds : \A quality \in LedgerQualities : RowsOf(id, quality) # {}
    /\ \E i \in RecordCalls : steps[i][3] \notin ledger

\* the run of download_release or download_track is over: it has returned,
\* or an exception has left it
Ended == pc \in {"DONE", "RAISED"}

\* every track of the item has been dealt with, each with its own outcome
TracksDealtWith == count = Len(catalog.tracks) /\ \A k \in Tracks : jobs[k].st \in JobEnded \cup {"demo"}

\* C16: once the processing of the release, or of the track in track mode,
\* has ended, with whatever outcome for each of its tracks, the embed-cover
\* temporary file is not in the item's directory.
C16_EmbedCoverGoneAtEnd == (Ended /\ TracksDealtWith) => ~EmbedCoverOnDisk

\* how a track of a release ends when no final file is newly written: a
\* demo, no download address, a final file there already, a failed
\* transfer, a failed tagging
EndedWithoutFile == {"demo", "no_url", "exists", "transfer_failed", "tag_failed"}

LoggedAbout(k) == \E entry \in log : entry[1] = k

\* C17: when the jobs of a release have all ended, every track that ended
\* without a newly written final file has a line in the log.
C17_SkippedTracksAreLogged ==
    (mode = "release" /\ pc \in {"CLEANUP_ARTWORK", "RECORD_LEDGER", "DONE"}) =>
        \A k \in Tracks : jobs[k].st \in EndedWithoutFile => LoggedAbout(k)

\* the file name a track template gives track k of the release
NamedBy(template, k) ==
    TrackPath(Format(template, _get_filename_attr(catalog.tracks[k].performer,
                                                  catalog.tracks[k], catalog)).s)
        \o (IF self.quality = 5 THEN <<".", "m", "p", "3">> ELSE <<".", "f", "l", "a", "c">>)

\* the directory of a disc: '<prefix> <two-digit disc number>' in the
\* release folder
DiscFolder(disc) == dirn \o <<"/">> \o settings.multiple_disc_prefix \o <<" ">> \o Pad2(disc)

DiscFolders == {DiscFolder(disc) : disc \in 1..catalog.media_count}

InReleaseFolder(f) == Len(f) > Len(dirn) /\ SubSeq(f, 1, Len(dirn) + 1) = dirn \o <<"/">>

\* where the claim has the final file of track k
LaidOutFile(k) ==
    IF catalog.media_count > 1 /\ ~settings.multiple_disc_one_dir
    THEN DiscFolder(catalog.tracks[k].media_number) \o <<"/">> \o NamedBy(self.track_format, k)
    ELSE IF catalog.media_count > 1
    THEN dirn \o <<"/">> \o NamedBy(settings.multiple_disc_track_format, k)
    ELSE dirn \o <<"/">> \o NamedBy(self.track_format, k)

\* for the set of the tracks with their places: the written tracks are at
\* their places and the release folder holds no other audio file
FilesLaidOut(places) ==
    /\ \A k \in DoneJobs : \E place \in places : place[1] = k /\ place[2] \in files
    /\ \A f \in files : (InReleaseFolder(f) /\ ~IsArtwork(f)) =>
          \/ \E place \in places : f = place[2]
          \/ \E k \in Tracks : f = JobTmpFile(mode, settings, catalog, dirn, k)

\* C19: in a release of several discs kept in separate directories the final
\* file of every track that is written is <release folder>/<prefix> <two-digit
\* disc number>/<name by the track template>; with multiple_disc_one_dir it is
\* <release folder>/<name by the multi-disc track template>; in a release of
\* one disc it is <release folder>/<name by the track template>; the release
\* folder holds no other audio file, and disc directories are made in the
\* first case only.
C19_DiscLayout ==
    (mode = "release" /\ "CREATE_DIRS" \in StepsDone) =>
        /\ FilesLaidOut({<<k, LaidOutFile(k)>> : k \in Tracks})
        /\ dirs \subseteq
              IF catalog.media_count > 1 /\ ~settings.multiple_disc_one_dir
              THEN {dirn} \cup DiscFolders ELSE {dirn}

\* the second track, of disc 2, is written into the directory CD 02
C19_Witness ==
    /\ mode = "release"
    /\ catalog.media_count = 2
    /\ ~settings.multiple_disc_one_dir
    /\ 2 \in DoneJobs
    /\ dirn \o <<"/", "C", "D", " ", "0", "2", "/">> \o NamedBy(DEFAULT_TRACK, 2) \in files
    /\ pc = "DONE"

\* ------------------------------------------------------------------------
\* Functions called on their own
\* ------------------------------------------------------------------------

MaxChars == 3

\* the characters of the texts clean_filename is called with: the nine
\* characters a file name must not hold, a letter, and characters the
\* patterns of clean_filename look for
CleanChars == {"/", "\\", ":", "*", "?", "\"", "<", ">", "|", "a", " ", ".", "(", ")"}

CleanTexts == UNION {[1..n -> CleanChars] : n \in 0..MaxChars}

Song == <<"S", "o", "n", "g">>
Remix == <<"R", "e", "m", "i", "x">>

TitleTexts ==
    {Song, Song \o <<" ", "(">> \o Remix \o <<")">>,
     Song \o <<" ", "(">> \o Lower(Remix) \o <<")">>}

\* album and track dictionaries: with the title and version keys only, and
\* with an id as the catalog's dictionaries have
TitleDicts ==
    {[title |-> title, version |-> version] :
        title \in TitleTexts, version \in {<<>>, Remix}}
    \cup {[title |-> title, version |-> version, id |-> ITEM_ID] :
            title \in TitleTexts, version \in {<<>>, Remix}}

MaxDisabled == 2

\* the settings that switch a category of tags off (settings.py, lines 23-39)
TagFlags ==
    {"no_album_artist_tag", "no_album_title_tag", "no_track_artist_tag",
     "no_track_title_tag", "no_release_date_tag", "no_media_type_tag", "no_genre_tag",
     "no_track_number_tag", "no_track_total_tag", "no_disc_number_tag",
     "no_disc_total_tag", "no_composer_tag", "no_explicit_tag", "no_copyright_tag",
     "no_label_tag", "no_upc_tag", "no_isrc_tag"}

DisabledSets == {d \in SUBSET TagFlags : Cardinality(d) <= MaxDisabled}

\* an album and a track as the catalog describes them, every field there
TagAlbum ==
    [title |-> Song, version |-> Remix, artist |-> <<"A">>, artists |-> <<>>,
     release_date_original |-> <<"2", "0", "2", "0", "-", "0", "1">>,
     genres_list |-> <<"G">>, copyright |-> <<"c">>, label |-> <<"L">>, upc |-> <<"7">>,
     product_type |-> <<"a">>, parental_warning |-> FALSE]

TagItem ==
    [title |-> Song, version |-> <<>>, performer |-> <<"p">>, composer |-> <<"q">>,
     isrc |-> <<"i">>, track_number |-> 1, media_number |-> 1]

\* the quality tiers of the catalog
Qualities == {5, 6, 7, 27}

MaxRestrictions == 2

RestrictionCodes == {QL_DOWNGRADE, "TrackRestrictedByRightHolders", "none"}

RECURSIVE CodeLists(_)
CodeLists(n) ==
    IF n = 0 THEN {<<>>}
    ELSE CodeLists(n - 1) \cup
         {Append(l, c) : l \in {m \in CodeLists(n - 1) : Len(m) = n - 1},
                         c \in RestrictionCodes}

\* the answers of get_track_url that _get_format looks at: "restrictions" a list
\* or not, the codes of its entries, "bit_depth" and "sampling_rate"
Probes ==
    {[is_list |-> is_list, restrictions |-> restrictions,
      bit_depth |-> bit_depth, sampling_rate |-> sampling_rate] :
        is_list \in BOOLEAN, restrictions \in CodeLists(MaxRestrictions),
        bit_depth \in {"24", "absent"}, sampling_rate \in {"44.1", "absent"}}

\* folder templates with subdirectories; the last has empty parts
SubdirTemplates ==
    {<<"{album_artist}", "/", "{album_title}">>,
     <<"{album_title}", "/", "{year}">>,
     <<"/", "{year}", "/", "/", "{album_title}", " ", "{upc}", "/">>}

InitPure ==
    /\ mode = "function"
    /\ catalog = Release(TRUE, "album", <<"A">>, 1, 1)
    /\ settings = [no_cover |-> TRUE, embed_art |-> FALSE, max_workers |-> 1,
                   multiple_disc_one_dir |-> FALSE,
                   multiple_disc_prefix |-> <<"C", "D">>,
                   multiple_disc_track_format |-> DEFAULT_MULTIPLE_DISC_TRACK,
                   fallback_folder_format |-> DEFAULT_FOLDER]
    /\ self = NewDownload(DEFAULT_FOLDER, DEFAULT_TRACK, settings)
    /\ pc = "CALL"
    /\ format_info = NoFormat
    /\ parse = StreamInfo(FALSE, "absent", "absent", FALSE, FALSE)
    /\ local_folder_format = <<>>
    /\ dirn = <<>>
    /\ count = 0
    /\ jobs = [k \in Tracks |-> NoJob]
    /\ files = {}
    /\ dirs = {}
    /\ ledger = {}
    /\ steps = <<>>
    /\ chosen = 0
    /\ log = {}
    /\ config = [folder_format |-> self.folder_format,
                 track_format |-> self.track_format,
                 multiple_disc_track_format |-> settings.multiple_disc_track_format]
    /\ item = 1
    /\ arg \in {<<"clean_filename", text>> : text \in CleanTexts}
                 \cup {<<"tag_title", d>> : d \in TitleDicts}
                 \cup {<<"tag", container, disabled>> :
                          container \in {"FLAC", "MP3"}, disabled \in DisabledSets}
                 \cup {<<"folder", folder_format, title>> :
                          folder_format \in SubdirTemplates,
                          title \in CleanTexts \ {<<>>}}
                 \cup {<<"_get_format", quality, probe, http_error>> :
                          quality \in Qualities, probe \in Probes,
                          http_error \in BOOLEAN}
    /\ result = <<>>

Returns(value) ==
    /\ result' = value
    /\ pc' = "RETURNED"
    /\ UNCHANGED <<config, item, arg, log, chosen, mode, self, settings, catalog, format_info,
                   parse, local_folder_format, dirn, count, jobs, files, dirs, ledger, steps>>

CallCleanFilename ==
    /\ pc = "CALL"
    /\ arg[1] = "clean_filename"
    /\ Returns(clean_filename(arg[2]))

\* tags["ALBUM"] or tags["TITLE"] of _get_tags_to_add (lines 244-247)
CallTagTitle ==
    /\ pc = "CALL"
    /\ arg[1] = "tag_title"
    /\ Returns(TagTitle(arg[2]))

\* tag_flac or tag_mp3 up to audio.save()
CallTagWriter ==
    /\ pc = "CALL"
    /\ arg[1] = "tag"
    /\ Returns(IF arg[2] = "MP3" THEN tag_mp3(TagAlbum, TagItem, arg[3])
               ELSE tag_flac(TagAlbum, TagItem, arg[3]))

\* Download._get_format on the answer arg[3] of get_track_url
CallGetFormat ==
    /\ pc = "CALL"
    /\ arg[1] = "_get_format"
    /\ Returns(_get_format(arg[2],
                           StreamInfo(FALSE, arg[3].sampling_rate, arg[3].bit_depth, TRUE,
                                      Downgraded(arg[3].is_list, arg[3].restrictions)),
                           arg[4]))

\* process_folder_format_with_subdirs on the attributes of an album whose
\* title is arg[3], resolved as FLAC
CallFolderFormat ==
    /\ pc = "CALL"
    /\ arg[1] = "folder"
    /\ Returns(process_folder_format_with_subdirs(
                   arg[2],
                   AlbumAttrOf([catalog EXCEPT !.title = arg[3]],
                               _get_format(27, StreamInfo(FALSE, "44.1", "24", TRUE, FALSE),
                                           FALSE)),
                   <<>>))

NextPure ==
    \/ CallFolderFormat
    \/ CallCleanFilename
    \/ CallTagTitle
    \/ CallTagWriter
    \/ CallGetFormat

SpecPure == InitPure /\ [][NextPure]_vars

Returned(function) == pc = "RETURNED" /\ arg[1] = function

\* the nine characters of the claim
NotInFileNames == {"/", "\\", ":", "*", "?", "\"", "<", ">", "|"}

\* C18: whatever text clean_filename is called with, none of the characters
\* / \ : * ? " < > | is in what it returns.
C18_NoInvalidCharacter ==
    Returned("clean_filename") => \A k \in 1..Len(result) : result[k] \notin NotInFileNames

\* a text holding three of the characters comes back as three characters
C18_Witness ==
    /\ Returned("clean_filename")
    /\ arg[2] = <<"?", "a", "*">>
    /\ result = <<"U+FF1F", "a", "U+FF0A">>

\* the title the claim gives for a title and a version (<<>>: no version)
TitleWithVersionOnce(title, version) ==
    IF version # <<>> /\ ~Contains(Lower(title), Lower(version))
    THEN title \o <<" ", "(">> \o version \o <<")">>
    ELSE title

\* C20: the ALBUM and TITLE tags of a dictionary are its title, followed by
\* ' (version)' exactly when there is a version and it is not already in the
\* title, whatever the case of its letters.
C20_VersionAppendedOnce ==
    Returned("tag_title") =>
        /\ result.ok
        /\ result.s = TitleWithVersionOnce(arg[2].title, arg[2].version)

\* the tags of a category in a FLAC file and its frames in an MP3 file; the
\* frames TRCK and TPOS hold the number and the total together
CategoryTags(flag, container) ==
    IF container = "FLAC"
    THEN CASE flag = "no_album_artist_tag" -> {"ALBUMARTIST"}
           [] flag = "no_album_title_tag" -> {"ALBUM"}
           [] flag = "no_track_artist_tag" -> {"ARTIST"}
           [] flag = "no_track_title_tag" -> {"TITLE"}
           [] flag = "no_release_date_tag" -> {"DATE", "YEAR"}
           [] flag = "no_media_type_tag" -> {"MEDIATYPE"}
           [] flag = "no_genre_tag" -> {"GENRE"}
           [] flag = "no_track_number_tag" -> {"TRACKNUMBER"}
           [] flag = "no_track_total_tag" -> {"TRACKTOTAL"}
           [] flag = "no_disc_number_tag" -> {"DISCNUMBER"}
           [] flag = "no_disc_total_tag" -> {"DISCTOTAL"}
           [] flag = "no_composer_tag" -> {"COMPOSER"}
           [] flag = "no_explicit_tag" -> {"ITUNESADVISORY"}
           [] flag = "no_copyright_tag" -> {"COPYRIGHT"}
           [] flag = "no_label_tag" -> {"LABEL"}
           [] flag = "no_upc_tag" -> {"BARCODE"}
           [] flag = "no_isrc_tag" -> {"ISRC"}
    ELSE CASE flag = "no_album_artist_tag" -> {"TPE2"}
           [] flag = "no_album_title_tag" -> {"TALB"}
           [] flag = "no_track_artist_tag" -> {"TPE1"}
           [] flag = "no_track_title_tag" -> {"TIT2"}
           [] flag = "no_release_date_tag" -> {"TDAT", "TYER"}
           [] flag = "no_media_type_tag" -> {"TMED"}
           [] flag = "no_genre_tag" -> {"TCON"}
           [] flag = "no_track_number_tag" -> {"TRCK"}
           [] flag = "no_track_total_tag" -> {}
           [] flag = "no_disc_number_tag" -> {"TPOS"}
           [] flag = "no_disc_total_tag" -> {}
           [] flag = "no_composer_tag" -> {"TCOM"}
           [] flag = "no_explicit_tag" -> {"TXXX:itunesadvisory"}
           [] flag = "no_copyright_tag" -> {"TCOP"}
           [] flag = "no_label_tag" -> {"TPUB"}
           [] flag = "no_upc_tag" -> {"TXXX:barcode"}
           [] flag = "no_isrc_tag" -> {"TSRC"}

\* C21: for an album and a track with every field there, FLAC or MP3: the
\* file is tagged, the tags of every category whose flag is on are absent
\* and the tags of every category whose flag is off are present, whatever
\* other flags are on.
C21_TagsFollowTheirOwnFlag ==
    Returned("tag") =>
        /\ result.ok
        /\ \A flag \in TagFlags :
              IF flag \in arg[3]
              THEN CategoryTags(flag, arg[2]) \cap result.written = {}
              ELSE CategoryTags(flag, arg[2]) \subseteq result.written

\* the attributes the folder template is rendered with (lines 158-160, 246-248)
ItemAttr ==
    IF mode = "release" THEN AlbumAttrOf(catalog, format_info)
    ELSE TrackAttrOf(TrackMeta(catalog), format_info)

\* the track of job k as the job is given it
JobTrack(k) == IF mode = "release" THEN catalog.tracks[k] ELSE TrackMeta(catalog)

\* the names the adopted track template and the adopted multi-disc track
\* template give track k, with the extension
AdoptedNames(k) ==
    {TrackPath(Format(template, _get_filename_attr(JobTrack(k).performer, JobTrack(k),
                                                   catalog)).s)
         \o (IF self.quality = 5 THEN <<".", "m", "p", "3">> ELSE <<".", "f", "l", "a", "c">>) :
        template \in {self.track_format, settings.multiple_disc_track_format}}

FileNameOf(f) == Split(f, "/")[Len(Split(f, "/"))]

WrittenUnderAdopted(adopted_dirn) ==
    /\ dirn = adopted_dirn
    /\ \A k \in DoneJobs : \E f \in files :
          /\ InReleaseFolder(f)
          /\ FileNameOf(f) \in AdoptedNames(k)

\* C22: once the item's directory is made, it is the directory the adopted
\* folder template renders, and every final file written has the name the
\* adopted track template or multi-disc track template renders, in release
\* mode and in track mode.
C22_WrittenWithAdoptedScheme ==
    ("CREATE_DIRS" \in StepsDone /\ dirn # <<>>) =>
        WrittenUnderAdopted(process_folder_format_with_subdirs(self.folder_format, ItemAttr,
                                                               self.path))

EmbedFile == PathJoin(dirn, EMB_COVER_NAME)

NoJobYet == count = 0 /\ \A k \in Tracks : jobs[k].st = "none"

NoJobLeft == \A k \in Tracks : ~Live(k)

\* C23: in a release, a step that writes the embed-cover file is taken
\* before any track job is dispatched, a step that deletes it is taken after
\* all track jobs have been dispatched and have terminated, and no step taken
\* while a track job is queued or running writes or deletes it.
C23_EmbedCoverOnlyReadByJobs ==
    [][mode = "release" =>
         /\ (EmbedFile \notin files /\ EmbedFile \in files') => NoJobYet
         /\ (EmbedFile \in files /\ EmbedFile \notin files') =>
                (count = Len(catalog.tracks) /\ NoJobLeft)
         /\ (\E k \in Tracks : Live(k)) => (EmbedFile \in files <=> EmbedFile \in files')]_vars

\* the embed cover was fetched, both tracks were written while it was there,
\* and it is deleted
C23_Witness ==
    /\ mode = "release"
    /\ settings.embed_art
    /\ Cardinality(DoneJobs) = 2
    /\ "CLEANUP_ARTWORK" \in StepsDone
    /\ ~EmbedCoverOnDisk

\* ------------------------------------------------------------------------
\* Releases of two tracks under track templates the user has configured
\* ------------------------------------------------------------------------

\* track templates without a field that tells the tracks of a release apart
ConfiguredTrackTemplates == {DEFAULT_TRACK, <<"{album_title}">>, <<"{year}", " ", "{album_artist}">>}

\* multi-disc track templates of the configuration; the second names the bit depth
ConfiguredMultipleDiscTemplates ==
    {DEFAULT_MULTIPLE_DISC_TRACK,
     <<"{disc_number}", ".", "{track_number}", " ", "{bit_depth}">>}

InitTrackNames ==
    /\ mode = "release"
    /\ \E media_count \in {1, 2} : catalog = Release(TRUE, "album", <<"A">>, media_count, 2)
    /\ \E one_dir \in BOOLEAN, max_workers \in 1..MaxWorkers, embed_art \in BOOLEAN,
          multiple_disc_track_format \in ConfiguredMultipleDiscTemplates :
          /\ one_dir => catalog.media_count > 1
          /\ multiple_disc_track_format # DEFAULT_MULTIPLE_DISC_TRACK => one_dir
          /\ settings = [no_cover |-> FALSE, embed_art |-> embed_art,
                         max_workers |-> max_workers,
                         multiple_disc_one_dir |-> one_dir,
                         multiple_disc_prefix |-> <<"C", "D">>,
                         multiple_disc_track_format |-> multiple_disc_track_format,
                         fallback_folder_format |-> DEFAULT_FOLDER]
    /\ \E track_format \in ConfiguredTrackTemplates, download_db \in {"", "db"},
          embed_art \in BOOLEAN, quality \in {5, 27} :
          self = [NewDownload(DEFAULT_FOLDER, track_format, settings) EXCEPT
                     !.download_db = download_db, !.embed_art = embed_art,
                     !.quality = quality]
    /\ pc = "START"
    /\ format_info = NoFormat
    /\ parse = StreamInfo(FALSE, "absent", "absent", FALSE, FALSE)
    /\ local_folder_format = <<>>
    /\ dirn = <<>>
    /\ count = 0
    /\ jobs = [k \in Tracks |-> NoJob]
    /\ files = {}
    /\ dirs = {}
    /\ ledger = {}
    /\ steps = <<>>
    /\ chosen = 0
    /\ log = {}
    /\ config = [folder_format |-> self.folder_format,
                 track_format |-> self.track_format,
                 multiple_disc_track_format |-> settings.multiple_disc_track_format]
    /\ item = 1
    /\ arg = <<>>
    /\ result = <<>>

NextTrackNames ==
    \/ Start
    \/ FetchMetadata
    \/ CheckStreamable
    \/ CheckFilter
    \/ ResolveFormat
    \/ CheckQualityGate
    \/ ResolveNames
    \/ CreateDirs
    \/ FetchCover
    \/ FetchEmbedCover
    \/ Dispatch
    \/ AwaitAll
    \/ Unwind
    \/ CleanupArtwork
    \/ RecordLedger
    \/ \E k \in Tracks : JobStart(k)
    \/ \E k \in Tracks : JobCheckExists(k)
    \/ \E k \in Tracks : JobTransfer(k)
    \/ \E k \in Tracks : JobTag(k)

SpecTrackNames == InitTrackNames /\ [][NextTrackNames]_vars

\* the jobs whose final file path is made and that have not returned at the
\* skip-if-exists check
PastExistsCheck == {k \in Tracks : jobs[k].st \in {"transfer", "tag", "done", "transfer_failed", "tag_failed"}}

FinalPath(k) == JobFinalFile(mode, self, settings, catalog, dirn, k).s

\* C24: in a release no two track jobs that have passed the skip-if-exists
\* check have the same final file path.
C24_FinalPathsDiffer ==
    \A k1 \in PastExistsCheck, k2 \in PastExistsCheck : k1 # k2 => FinalPath(k1) # FinalPath(k2)

\* a template that names the bit depth or the sampling rate
Refers(fs) == \E k \in 1..Len(fs) : fs[k] \in {"{bit_depth}", "{sampling_rate}"}

\* the release keeps the tracks of all its discs in one folder
UsesMultipleDiscTemplate ==
    settings.multiple_disc_one_dir /\ ResolverAlbum.media_count > 1

\* C25: when the resolved container format is MP3 or Unknown, every template of
\* the adopted candidate that names bit_depth or sampling_rate has been replaced
\* before its paths were measured: the folder and the track template by the
\* default of the format, and the multi-disc track template, where it is the
\* one in use, by one that names neither field.
C25_LossyTemplatesReplaced ==
    (Resolved /\ chosen \in 1..4 /\ format_info.file_format \in {"MP3", "Unknown"}) =>
        /\ Refers(Candidate(chosen)[1]) =>
               self.folder_format = DEFAULT_FORMATS(format_info.file_format, 1)
        /\ Refers(Candidate(chosen)[2]) =>
               self.track_format = DEFAULT_FORMATS(format_info.file_format, 2)
        /\ (UsesMultipleDiscTemplate /\ Refers(Candidate(chosen)[3])) =>
               ~Refers(settings.multiple_disc_track_format)

\* C26: _get_format always returns a decision; for quality 5 it is (MP3, quality
\* met, no bit depth, no sampling rate), and when the stream info of the probed
\* track was obtained the decision says "quality not met" exactly when the
\* restrictions of the stream info hold one with the code
\* FormatRestrictedByFormatAvailability.
C26_QualityMetFollowsRestriction ==
    Returned("_get_format") =>
        /\ result.file_format \in {"MP3", "FLAC", "Unknown"}
        /\ arg[2] = 5 =>
               result = [file_format |-> "MP3", quality_met |-> TRUE,
                         bit_depth |-> NoneText, sampling_rate |-> NoneText]
        /\ (arg[2] # 5 /\ ~arg[4]) =>
               (result.quality_met = FALSE <=>
                   /\ arg[3].is_list
                   /\ \E k \in 1..Len(arg[3].restrictions) :
                          arg[3].restrictions[k] = "FormatRestrictedByFormatAvailability")

C26_Witness ==
    /\ Returned("_get_format")
    /\ arg[2] = 27
    /\ ~arg[4]
    /\ arg[3].is_list
    /\ arg[3].restrictions = <<"TrackRestrictedByRightHolders",
                               "FormatRestrictedByFormatAvailability">>
    /\ result.file_format = "FLAC"
    /\ result.quality_met = FALSE

\* the number of non-empty parts between the separators of a path or template
Segments(t) == Cardinality({k \in 1..Len(Split(t, "/")) : Split(t, "/")[k] # <<>>})

\* C27: the folder path rendered from a template with '/' separators has as
\* many segments as the template has non-empty segments, whatever the album
\* title holds.
C27_SegmentsKept ==
    Returned("folder") => Segments(result) = Segments(arg[2])

\* the path _determine_formats has measured for track k under the adopted
\* templates (lines 495-522)
ResolvedFile(k) ==
    EvaluatedPath(process_folder_format_with_subdirs(self.folder_format, ResolverAttr, <<>>),
                  self.track_format, settings.multiple_disc_track_format,
                  ResolverTracks[k], ResolverAlbum, settings, format_info.file_format)

\* C28: when a candidate has been adopted, the final file of every track job
\* that has written one is, under the base path, the path the resolver has
\* measured for that track: the same disc directory, the same template, the
\* same extension and no further shortening, in release and in track mode.
C28_JobWritesEvaluatedPath ==
    chosen \in 1..4 =>
        \A k \in DoneJobs :
            /\ ResolvedFile(k).ok
            /\ PathJoin(self.path, ResolvedFile(k).s) \in files

\* C29: whenever a track job is about to call the tag writer with the embed
\* flag on, the embed-cover file is on disk in the track's directory or in the
\* parent of it.
C29_EmbedCoverPresent ==
    \A k \in Tracks :
        (jobs[k].st = "tag" /\ self.embed_art) => EmbedCoverFound(JobDir(k), files)

\* the jobs of the release that occupy a worker at the same time
Concurrent(j, k) == j # k /\ jobs[j].st \in JobRunning /\ jobs[k].st \in JobRunning

\* the name of a temp file: a dot, two digits or more, ".tmp"
IsTmpName(name) ==
    /\ Len(name) >= 7
    /\ name[1] = "."
    /\ \A i \in 2..(Len(name) - 4) : name[i] \in {"0", "1", "2", "3", "4", "5", "6", "7", "8", "9"}
    /\ SubSeq(name, Len(name) - 3, Len(name)) = <<".", "t", "m", "p">>

\* C30: in a release, the temp file of every dispatched job lies in the
\* track's directory under a name of the form .NN.tmp, and two jobs that run
\* at the same time never have the same temp file.
C30_OwnTempFile ==
    mode = "release" =>
        /\ \A k \in Dispatched :
               /\ JobTmpFile(mode, settings, catalog, dirn, k) =
                      PathJoin(JobDir(k), FileNameOf(JobTmpFile(mode, settings, catalog, dirn, k)))
               /\ IsTmpName(FileNameOf(JobTmpFile(mode, settings, catalog, dirn, k)))
        /\ \A j, k \in Tracks :
               Concurrent(j, k) =>
                   JobTmpFile(mode, settings, catalog, dirn, j) #
                       JobTmpFile(mode, settings, catalog, dirn, k)

\* two jobs of one directory are tagging at the same time, each with its own
\* temp file on disk
C30_Witness ==
    /\ mode = "release"
    /\ jobs[1].st = "tag" /\ jobs[2].st = "tag"
    /\ JobDir(1) = JobDir(2)
    /\ TmpOnDisk(1) /\ TmpOnDisk(2)
    /\ JobTmpFile(mode, settings, catalog, dirn, 1) # JobTmpFile(mode, settings, catalog, dirn, 2)

====
